---- MODULE Spec2Model ----
(***************************************************************************)
(* Product / supplier resolution of the ordering bot (src/main.py) and the *)
(* catalog import (src/import_articles_from_sheets.py).                    *)
(*                                                                         *)
(* Text values are sequences of character codes (ASCII), so that strip(),  *)
(* isdigit(), int(), string concatenation, SQL LIKE 'prefix%' and ORDER BY *)
(* are computed as Python and SQLite compute them.  Dates are proleptic    *)
(* Gregorian ordinals, as datetime keeps them; strftime("%d.%m.%Y") is the *)
(* triple <<day, month, year>>.                                            *)
(***************************************************************************)
EXTENDS Integers, Sequences, FiniteSets, TLC

\* ------------------------------------------------------------------------
\* Bounds of the model
\* ------------------------------------------------------------------------
\* number of consecutive days the host clock ranges over (from FirstDay)
DayWindow == 14
\* largest value of an order-day field drawn for the calculator
MaxOrderDay == 8
\* largest lead time (delivery_days) drawn for the calculator
MaxLead == 3
\* most rows of the catalog worksheet
MaxRows == 2
\* number of consecutive days the clock ranges over while products are resolved
ResolveDays == 2
\* most rows of the users worksheet
MaxUserRows == 1
MaxOrders == 1
\* most rows of the worksheet of the tasks
MaxTasks == 1
\* most recipients of a broadcast
MaxRecipients == 2

\* ------------------------------------------------------------------------
\* Python built-ins on text
\* ------------------------------------------------------------------------
SP == 32
CH0 == 48
CHX == 120

\* the string of one decimal digit d
Dg(d) == <<CH0 + d>>

\* the character SUPERSCRIPT TWO: str.isdigit() holds for it and int() raises
\* ValueError on it
CH2SUP == 178

IsSpaceChar(c) == c = SP

\* the characters int() and the pattern \d take: the decimal digits
IsDecimalChar(c) == c \in CH0..(CH0 + 9)

\* the characters str.isdigit() holds for
IsDigitChar(c) == IsDecimalChar(c) \/ c = CH2SUP

RECURSIVE lstrip(_)
lstrip(s) == IF s # <<>> /\ IsSpaceChar(Head(s)) THEN lstrip(Tail(s)) ELSE s

RECURSIVE rstrip(_)
rstrip(s) ==
    IF s # <<>> /\ IsSpaceChar(s[Len(s)]) THEN rstrip(SubSeq(s, 1, Len(s) - 1)) ELSE s

\* str.strip()
strip(s) == rstrip(lstrip(s))

\* str.isdigit(): non-empty and every character a digit
isdigit(s) == s # <<>> /\ \A i \in 1..Len(s) : IsDigitChar(s[i])

\* int(s) raises ValueError
int_raises(s) == s = <<>> \/ \E i \in 1..Len(s) : ~IsDecimalChar(s[i])

\* int(s) for a string of decimal digits
RECURSIVE int(_)
int(s) == IF s = <<>> THEN 0 ELSE 10 * int(SubSeq(s, 1, Len(s) - 1)) + (s[Len(s)] - CH0)

\* a truthy str ("if value")
truthy(s) == s # <<>>

\* sorted(list(set(xs))) and sorted(xs) for lists of integers
RECURSIVE SortedSeqOf(_)
SortedSeqOf(S) ==
    IF S = {} THEN <<>>
    ELSE LET m == CHOOSE x \in S : \A y \in S : x <= y
         IN <<m>> \o SortedSeqOf(S \ {m})

Range(xs) == {xs[i] : i \in 1..Len(xs)}

sorted(xs) ==
    \* a stable sort of integers: equal elements are indistinguishable
    LET RECURSIVE ins(_, _)
        ins(x, ys) == IF ys = <<>> \/ x <= Head(ys) THEN <<x>> \o ys
                      ELSE <<Head(ys)>> \o ins(x, Tail(ys))
        RECURSIVE go(_)
        go(zs) == IF zs = <<>> THEN <<>> ELSE ins(Head(zs), go(Tail(zs)))
    IN go(xs)

\* ------------------------------------------------------------------------
\* datetime: ordinals, isoweekday, timedelta, strftime
\* ------------------------------------------------------------------------
\* date(2024, 1, 1).toordinal()
EpochOrdinal == 738886
EpochYear == 2024
\* date(2024, 2, 24).toordinal(), a Saturday: the window crosses 29 February
FirstDay == 738940

IsLeap(y) == (y % 4 = 0 /\ y % 100 # 0) \/ y % 400 = 0

DaysInMonth(y, m) ==
    IF m = 2 THEN (IF IsLeap(y) THEN 29 ELSE 28)
    ELSE IF m \in {4, 6, 9, 11} THEN 30 ELSE 31

\* date.isoweekday(): ordinal 1 (0001-01-01) is a Monday
isoweekday(ord) == ((ord - 1) % 7) + 1

\* the calendar date n days after the first of month m of year y
RECURSIVE YmdFrom(_, _, _)
YmdFrom(y, m, n) ==
    IF n < DaysInMonth(y, m) THEN <<n + 1, m, y>>
    ELSE IF m = 12 THEN YmdFrom(y + 1, 1, n - DaysInMonth(y, m))
    ELSE YmdFrom(y, m + 1, n - DaysInMonth(y, m))

\* strftime("%d.%m.%Y") of the date with this ordinal
strftime(ord) == YmdFrom(EpochYear, 1, ord - EpochOrdinal)

Days == FirstDay..(FirstDay + DayWindow - 1)

\* ------------------------------------------------------------------------
\* calculate_delivery_date (src/main.py 686-707)
\* ------------------------------------------------------------------------
\* Python's None for an optional value: the empty tuple; a value v is <<v>>
None == <<>>

\* lines 692-696: the first of the sorted order days that is >= today's weekday
nearest_day_pickmin(order_days, current_weekday) ==
    IF order_days = <<>> THEN None ELSE <<sorted(order_days)[1]>>

nearest_day_loop(order_days, current_weekday) ==
    LET days == sorted(order_days)
        cand == {i \in 1..Len(days) : days[i] >= current_weekday}
    IN IF cand = {} THEN None
       ELSE <<days[CHOOSE i \in cand : \A j \in cand : i <= j]>>

\* "not nearest_day": None and 0 are both falsy
falsy_day(nearest_day) == nearest_day = None \/ nearest_day[1] = 0

\* min(order_days); the caller guards against the empty list
min_day(order_days) ==
    CHOOSE x \in Range(order_days) : \A y \in Range(order_days) : x <= y

\* line 700
delta_days_nomod(nearest_day, current_weekday) == nearest_day - current_weekday

delta_days(nearest_day, current_weekday) == (nearest_day - current_weekday) % 7

\* line 702
delivery_ordinal_from_today(now, order_ordinal, lead) == now + lead

delivery_ordinal(now, order_ordinal, lead) == order_ordinal + lead

ValueError == [raised |-> TRUE, order_date |-> <<>>, delivery_date |-> <<>>]

\* the whole function; `now` is datetime.now(); min([]) raises ValueError
calculate_delivery_date(supplier_data, now) ==
    LET current_weekday == isoweekday(now)
        order_days == supplier_data.order_days
        picked == nearest_day_loop(order_days, current_weekday)
    IN IF falsy_day(picked) /\ order_days = <<>> THEN ValueError
       ELSE LET nearest_day == IF falsy_day(picked) THEN min_day(order_days)
                               ELSE picked[1]
                order_date == now + delta_days(nearest_day, current_weekday)
                delivery_date ==
                    delivery_ordinal(now, order_date, supplier_data.delivery_days)
            IN [raised |-> FALSE,
                order_date |-> strftime(order_date),
                delivery_date |-> strftime(delivery_date)]

\* ------------------------------------------------------------------------
\* State
\* ------------------------------------------------------------------------
VARIABLES
    today,      \* the host's local date (datetime.now()), an ordinal
    calc_arg,   \* the supplier_data last handed to calculate_delivery_date
    calc_ret,   \* what that call returned, or NotCalled
    sheet,      \* the catalog worksheet: the rows get_all_records() returns
    db_exists,  \* os.path.exists(DB_PATH)
    articles,   \* the committed rows of table articles
    schedules,  \* shop -> its table of order days: [exists, rows]
    import_out, \* what the last run of the import script printed
    call,       \* the last call of get_product_info: arguments, date, outcome
    refreshed,  \* history: an import ran since the last get_product_info call
    users_sheet, \* the worksheet of registered users (get_all_records())
    cache,      \* the process-wide LRUCache, least recently used entry first
    fsm,        \* user -> the FSM state of the chat session, "" for none
    data,       \* user -> the FSM data of the chat session
    out,        \* the messages the bot sent while handling the last update
    retrying,   \* the update whose handler raised and is about to be run again
    importer,   \* the import script while it runs: its position and transaction
    logged,     \* the records the last refresh of the cache wrote to the log
    parse_arg,  \* the schedule row last handed to parse_supplier_data on its own
    parse_ret,  \* what that call returned, or NotParsed
    orders,     \* the rows written to the department worksheets of the orders
    service_mode, \* SERVICE_MODE
    tasks,      \* the rows of the worksheet of the tasks
    broadcast,  \* the last run of send_broadcast: its arguments and what it did
    refresher   \* the loop of scheduled_cache_update: its position, the store

chat_vars == <<users_sheet, cache, fsm, data, out, retrying, logged>>

vars == <<today, calc_arg, calc_ret, sheet, db_exists, articles, schedules,
          import_out, call, refreshed, users_sheet, cache, fsm, data, out,
          retrying, importer, logged, parse_arg, parse_ret, orders, service_mode,
          tasks, broadcast, refresher>>

parse_vars == <<parse_arg, parse_ret>>

\* what the order wizard's last step writes, and the admins' switch
side_vars == <<orders, service_mode, tasks, broadcast, refresher>>

\* no order and no task written yet; SERVICE_MODE = False (line 263)
\* scheduled_cache_update in its asyncio.sleep (line 2725), the worksheets
\* answering; failed (history): a scheduled load has failed
Sleeping == [pc |-> "sleep", store_ok |-> TRUE, failed |-> FALSE]

NoBroadcast ==
    [called |-> FALSE, user_ids |-> <<>>, outcome |-> <<>>, report_ok |-> TRUE,
     attempted |-> <<>>, report |-> <<>>, raised |-> FALSE]

InitSide ==
    /\ orders = <<>> /\ service_mode = FALSE /\ tasks = <<>>
    /\ broadcast = NoBroadcast
    /\ refresher = Sleeping

NotCalled == [raised |-> FALSE, order_date |-> <<>>, delivery_date |-> <<>>]

NoArg == [supplier_id |-> <<>>, order_days |-> <<>>, delivery_days |-> 0]

NoRecord ==
    [supplier_id |-> <<>>, supplier_name |-> <<>>, lead |-> <<>>, day1 |-> <<>>,
     day2 |-> <<>>, day3 |-> <<>>]

NotParsed == [called |-> FALSE, raised |-> FALSE, value |-> NoArg]

\* ------------------------------------------------------------------------
\* parse_supplier_data (src/main.py 671-684)
\* ------------------------------------------------------------------------
order_day_keys == <<"day1", "day2", "day3">>

\* lines 674-677: the order-day fields that are non-blank digit strings
parsed_order_days(record) ==
    LET value(i) == strip(record[order_day_keys[i]])
        RECURSIVE collect(_)
        collect(i) ==
            IF i > Len(order_day_keys) THEN <<>>
            ELSE (IF truthy(value(i)) /\ isdigit(value(i)) THEN <<int(value(i))>>
                  ELSE <<>>) \o collect(i + 1)
    IN collect(1)

\* int() of line 677 or 683 raises ValueError
parse_supplier_data_raises(record) ==
    \E f \in {"day1", "day2", "day3", "lead"} :
        isdigit(strip(record[f])) /\ int_raises(strip(record[f]))

\* the dict returned when nothing raises
parse_supplier_data(record) ==
    LET delivery_days == strip(record.lead)
    IN [supplier_id |-> record.supplier_id,
        order_days |-> SortedSeqOf(Range(parsed_order_days(record))),
        delivery_days |-> IF isdigit(delivery_days) THEN int(delivery_days) ELSE 0]

\* ------------------------------------------------------------------------
\* SQLite: table articles and the per-shop schedule tables
\* ------------------------------------------------------------------------
IsPrefix(p, s) == Len(p) <= Len(s) /\ SubSeq(s, 1, Len(p)) = p

\* BINARY collation: memcmp order of the texts
RECURSIVE LexLess(_, _)
LexLess(a, b) ==
    IF a = <<>> THEN b # <<>>
    ELSE IF b = <<>> THEN FALSE
    ELSE IF Head(a) # Head(b) THEN Head(a) < Head(b)
    ELSE LexLess(Tail(a), Tail(b))

\* WHERE full_key = ?
select_exact(full_key) == {r \in articles : r.full_key = full_key}

\* WHERE full_key LIKE '<article>%' (the articles here hold no LIKE wildcard)
select_like(article) == {r \in articles : IsPrefix(article, r.full_key)}

\* LIMIT 1 without ORDER BY: any of the rows
limit_1_unordered(rows) == rows

\* ORDER BY full_key LIMIT 1: the rows fetchone() can return
order_by_full_key_limit_1(rows) ==
    {r \in rows : \A q \in rows : ~LexLess(q.full_key, r.full_key)}

\* str(row['is_top_store']) of the INTEGER column
str_int(n) == Dg(n)

\* lines 834-843 and 866-875: the dict built from a row
row_to_product(row) ==
    [shop |-> row.store_number,
     department |-> row.department,
     article |-> row.article_code,
     name |-> row.name,
     gamma |-> row.gamma,
     supplier_code |-> row.supplier_code,
     supplier_name |-> row.supplier_name,
     top |-> str_int(row.is_top_store)]

\* get_product_data_from_db (801-886): the values it can return; a missing
\* database file raises FileNotFoundError, which line 884 turns into None
get_product_data_from_db(article, shop) ==
    IF ~db_exists THEN {None}
    ELSE LET exact == select_exact(article \o shop)
             like == order_by_full_key_limit_1(select_like(article))
         IN IF exact # {} THEN {<<row_to_product(r)>> : r \in exact}
            ELSE IF like # {} THEN {<<row_to_product(r)>> : r \in like}
            ELSE {None}

\* a lookup that reads the supplier's row from whatever shop's table holds it
get_supplier_data_any_table(supplier_id, shop) ==
    LET sid == strip(supplier_id)
        rows == {r \in UNION {schedules[t].rows : t \in DOMAIN schedules} :
                    r.supplier_id = sid}
    IN IF ~truthy(sid) \/ ~db_exists \/ rows = {} THEN None
       ELSE <<CHOOSE r \in rows : TRUE>>

\* get_supplier_data_from_db (889-938); a missing file or table raises, and
\* lines 933-938 turn that into None
get_supplier_data_from_db(supplier_id, shop) ==
    LET sid == strip(supplier_id)
    IN IF ~truthy(sid) THEN None
       ELSE IF ~db_exists THEN None
       ELSE IF shop \notin DOMAIN schedules THEN None
       ELSE IF ~schedules[shop].exists THEN None
       ELSE LET rows == {r \in schedules[shop].rows : r.supplier_id = sid}
            IN IF rows = {} THEN None ELSE <<CHOOSE r \in rows : TRUE>>

\* ------------------------------------------------------------------------
\* get_product_info (src/main.py 710-782)
\* ------------------------------------------------------------------------
\* 'Товар РЦ'
TovarRC == <<1058, 1086, 1074, 1072, 1088, 32, 1056, 1062>>

\* 'Не определена (поставщик не найден)'
NotDetermined ==
    <<1053, 1077, 32, 1086, 1087, 1088, 1077, 1076, 1077, 1083, 1077, 1085, 1072,
      32, 40, 1087, 1086, 1089, 1090, 1072, 1074, 1097, 1080, 1082, 32, 1085,
      1077, 32, 1085, 1072, 1081, 1076, 1077, 1085, 41>>

\* the variant named in the comments of lines 737 and 753
degraded_result_supplier_name(article, shop, p) ==
    [article |-> article, name |-> p.name, department |-> p.department,
     shop |-> shop, supplier |-> strip(p.supplier_name), top |-> p.top,
     order_date |-> NotDetermined, delivery_date |-> NotDetermined]

\* lines 732-741 and 748-757
degraded_result(article, shop, p) ==
    [article |-> article, name |-> p.name, department |-> p.department,
     shop |-> shop, supplier |-> TovarRC, top |-> p.top,
     order_date |-> NotDetermined, delivery_date |-> NotDetermined]

\* lines 765-775
full_result(article, shop, p, supplier_id, supplier_data, dates) ==
    [article |-> article, name |-> p.name, department |-> p.department,
     shop |-> shop, supplier |-> strip(supplier_data.supplier_name),
     order_date |-> dates.order_date, delivery_date |-> dates.delivery_date,
     supplier_number |-> supplier_id, top |-> p.top]

\* the body of get_product_info once get_product_data_from_db has returned
\* product_data: the result (None or <<dict>>) and the calculator call made
get_product_info_from(article, shop, product_data, now) ==
    IF product_data = None
    THEN [result |-> None, calc_arg |-> NoArg, calc_ret |-> NotCalled]
    ELSE LET p == product_data[1]
             supplier_id == strip(p.supplier_code)
             degraded == [result |-> <<degraded_result(article, shop, p)>>,
                          calc_arg |-> NoArg, calc_ret |-> NotCalled]
         IN IF ~truthy(supplier_id) THEN degraded
            ELSE LET supplier_data == get_supplier_data_from_db(supplier_id, shop)
                 IN IF supplier_data = None THEN degraded
                    ELSE IF parse_supplier_data_raises(supplier_data[1])
                    \* lines 780-782: except Exception: return None
                    THEN [result |-> None, calc_arg |-> NoArg, calc_ret |-> NotCalled]
                    ELSE LET parsed == parse_supplier_data(supplier_data[1])
                             dates == calculate_delivery_date(parsed, now)
                         IN IF dates.raised
                            \* lines 780-782: except Exception: return None
                            THEN [result |-> None, calc_arg |-> parsed,
                                  calc_ret |-> dates]
                            ELSE [result |-> <<full_result(article, shop, p,
                                                   supplier_id, supplier_data[1],
                                                   dates)>>,
                                  calc_arg |-> parsed, calc_ret |-> dates]

\* ------------------------------------------------------------------------
\* import_articles_from_sheets.py
\* ------------------------------------------------------------------------
sheet_columns ==
    {"key", "article", "shop", "department", "name", "gamma", "supplier_code",
     "supplier_name"}

\* row["..."] raises KeyError for a column the worksheet row lacks
has_columns(row) == sheet_columns \subseteq DOMAIN row

\* lines 65-78; "top" is read with row.get
prepare_row(row) ==
    [full_key |-> strip(row.key),
     article_code |-> strip(row.article),
     store_number |-> strip(row.shop),
     department |-> strip(row.department),
     name |-> strip(row.name),
     gamma |-> strip(row.gamma),
     supplier_code |-> strip(row.supplier_code),
     supplier_name |-> strip(row.supplier_name),
     is_top_store |-> IF strip(IF "top" \in DOMAIN row THEN row.top ELSE <<>>) = Dg(1)
                      THEN 1 ELSE 0]

\* lines 64-78: the list handed to executemany
prepared_rows(records) == [i \in 1..Len(records) |-> prepare_row(records[i])]

\* full_key is the PRIMARY KEY: executemany raises IntegrityError on a repeat
violates_primary_key(prepared) ==
    \E i, j \in 1..Len(prepared) : i # j /\ prepared[i].full_key = prepared[j].full_key

\* the exception the script ends with (line 97), "" for none: the fetch of the
\* worksheet, a missing column (KeyError), a repeated key (IntegrityError)
import_error(fetch_ok, records, prepared) ==
    IF ~fetch_ok THEN "fetch"
    ELSE IF \E i \in 1..Len(records) : ~has_columns(records[i]) THEN "KeyError"
    ELSE IF violates_primary_key(prepared) THEN "IntegrityError"
    ELSE ""

\* the DELETE of line 61 stays in the open transaction and is undone with it
rows_without_rollback(done, prepared, old) ==
    IF done THEN {prepared[i] : i \in 1..Len(prepared)} ELSE {}

\* the committed rows of the table once the script has ended: those of
\* line 86's commit, else the old ones (the transaction is rolled back when
\* the connection goes away)
committed_rows(done, prepared, old) ==
    IF done THEN {prepared[i] : i \in 1..Len(prepared)} ELSE old

NoImport == [ran |-> FALSE, ok |-> FALSE, imported |-> 0, error |-> ""]

\* the script is not running; while it runs: pc is the statement reached,
\* records the fetched worksheet, txn the rows of the table as its open
\* transaction has them, before the rows committed when it started
NotRunning == [pc |-> "exit", records |-> <<>>, txn |-> {}, before |-> {}]

\* conn.execute("DELETE ...") if the statement were committed at once: the
\* committed rows after it
rows_after_delete_autocommit(committed) == {}

\* conn.execute("DELETE ...") (line 61) opens a transaction: the committed
\* rows, which other connections read, stay
rows_after_delete(committed) == committed

\* ------------------------------------------------------------------------
\* The data the model draws from
\* ------------------------------------------------------------------------
\* articles of 4 and 5 digits; shop 56 makes 1234 & 56 the key of 12345 & 6
A1234 == Dg(1) \o Dg(2) \o Dg(3) \o Dg(4)
A12345 == A1234 \o Dg(5)
Shop5 == Dg(5)
Shop6 == Dg(6)
Shop56 == Dg(5) \o Dg(6)
Sup7 == Dg(7)
Sup8 == Dg(8)
Ltr(n) == <<96 + n>>

\* a worksheet row whose key column is article & shop (main.py 813-814)
MkRow(article, shop, department, name, supplier_code, supplier_name, top) ==
    [key |-> article \o shop, article |-> article, shop |-> shop,
     department |-> department, name |-> name, gamma |-> Ltr(7),
     supplier_code |-> supplier_code, supplier_name |-> supplier_name,
     top |-> top]

RowPlain == MkRow(A1234, Shop5, Dg(1), Ltr(1), <<SP>> \o Sup7, Ltr(19), Dg(1))
RowNoSupplier == MkRow(A1234, Shop6, Dg(2), Ltr(2), <<>>, <<>>, Dg(0))
RowLonger == MkRow(A12345, Shop6, Dg(1), Ltr(3), Sup8, Ltr(20), <<>>)
RowNoArticle == MkRow(<<>>, Shop5, Dg(1), Ltr(4), Sup7, Ltr(19), Dg(1))
RowNoShop == MkRow(A1234, <<>>, Dg(2), Ltr(5), Sup8, Ltr(20), Dg(0))
RowSameKey == MkRow(A1234, Shop56, Dg(2), Ltr(6), Sup7, Ltr(19), Dg(1))
\* a row without the column "Гамма"
RowNoGamma ==
    [k \in (DOMAIN RowPlain) \ {"gamma"} |-> IF k = "name" THEN Ltr(8) ELSE RowPlain[k]]

CatalogRows ==
    {RowPlain, RowNoSupplier, RowLonger, RowNoArticle, RowNoShop, RowSameKey,
     RowNoGamma}

\* the worksheets of at most MaxRows rows over a set of rows
SheetsOver(rows) == UNION {[1..n -> rows] : n \in 0..MaxRows}

Sheets == SheetsOver(CatalogRows)

\* the worksheets looked products up in: rows that import
ResolveSheets == SheetsOver({RowPlain, RowNoSupplier, RowLonger, RowSameKey})

SchedGood7 ==
    [supplier_id |-> Sup7, supplier_name |-> <<SP>> \o Ltr(19), lead |-> Dg(2),
     day1 |-> Dg(7), day2 |-> Dg(1), day3 |-> Dg(6)]
SchedBlank7 ==
    [supplier_id |-> Sup7, supplier_name |-> Ltr(19), lead |-> <<>>,
     day1 |-> <<>>, day2 |-> <<CHX>>, day3 |-> <<SP>>]
SchedDup8 ==
    [supplier_id |-> Sup8, supplier_name |-> Ltr(20), lead |-> <<CHX>>,
     day1 |-> Dg(2), day2 |-> <<SP>> \o Dg(2), day3 |-> <<>>]

AbsentTable == [exists |-> FALSE, rows |-> {}]
Table(rows) == [exists |-> TRUE, rows |-> rows]

Shops == {Shop5, Shop6, Shop56}

\* the schedule tables a shop can have; no table is kept for shop 56
ScheduleTables(shop) ==
    IF shop = Shop5 THEN {AbsentTable, Table({SchedGood7}), Table({SchedBlank7})}
    ELSE IF shop = Shop6 THEN {AbsentTable, Table({}), Table({SchedGood7, SchedDup8})}
    ELSE {AbsentTable}

AskedArticles == {A1234, A12345}
AskedShops == Shops

\* ------------------------------------------------------------------------
\* cache = LRUCache(maxsize=500) (src/main.py 268): a list of entries, the
\* least recently used one first; born is the place of the entry's key in
\* the order the keys were inserted (the order iter(cache) yields them)
\* ------------------------------------------------------------------------
CacheMaxsize == 500

\* the keys "users_data" and f"user_{user_id}"
UsersDataKey == [kind |-> "users_data", id |-> <<>>]
UserKey(user_id) == [kind |-> "user", id |-> user_id]

cache_contains(c, k) == \E i \in 1..Len(c) : c[i].key = k

\* the place of a key that is in the cache; key in cache does not change
\* the order
cache_index(c, k) == CHOOSE i \in 1..Len(c) : c[i].key = k

cache_value(c, k) == c[cache_index(c, k)].value

\* the entries of c but the i-th, in the order of use
cache_others(c, i) == SubSeq(c, 1, i - 1) \o SubSeq(c, i + 1, Len(c))

\* the keys inserted after the one that was born-th close up
cache_closed_up(c, born) ==
    [i \in 1..Len(c) |-> IF c[i].born > born THEN [c[i] EXCEPT !.born = @ - 1]
                         ELSE c[i]]

\* cache.pop(key, None)
cache_pop(c, k) ==
    IF cache_contains(c, k)
    THEN LET i == cache_index(c, k)
         IN cache_closed_up(cache_others(c, i), c[i].born)
    ELSE c

\* cache[key] and cache.get(key) of a present key: the entry becomes the
\* most recently used one
cache_getitem(c, k) ==
    IF cache_contains(c, k)
    THEN LET i == cache_index(c, k)
         IN Append(cache_others(c, i), c[i])
    ELSE c

\* cache[key] = value in a cache that never evicts
cache_setitem_unbounded(c, k, v) ==
    IF cache_contains(c, k)
    THEN LET i == cache_index(c, k)
         IN Append(cache_others(c, i), [c[i] EXCEPT !.value = v])
    ELSE Append(c, [key |-> k, value |-> v, born |-> Len(c) + 1])

\* cache[key] = value: a new key evicts the least recently used entry of a
\* full cache
cache_setitem(c, k, v) ==
    IF cache_contains(c, k)
    THEN LET i == cache_index(c, k)
         IN Append(cache_others(c, i), [c[i] EXCEPT !.value = v])
    ELSE LET room == IF Len(c) >= CacheMaxsize
                     THEN cache_closed_up(Tail(c), c[1].born)
                     ELSE c
         IN Append(room, [key |-> k, value |-> v, born |-> Len(room) + 1])

\* the entry of a was inserted before the entry of b
born_before(a, b) == a.born < b.born

\* cache.values() read to the end: ValuesView yields cache[key] for the keys
\* in the order of insertion, and every cache[key] makes its entry the most
\* recently used one
cache_values(c) == SortSeq(c, born_before)

\* ------------------------------------------------------------------------
\* get_user_data (src/main.py 458-491)
\* ------------------------------------------------------------------------
\* 'Не указан', 'Не указано', 'Не указана'
NotSpecifiedShop == <<1053, 1077, 32, 1091, 1082, 1072, 1079, 1072, 1085>>
NotSpecifiedName == NotSpecifiedShop \o <<1086>>
NotSpecifiedPosition == NotSpecifiedShop \o <<1072>>

\* x or default
or_default(x, default) == IF truthy(x) THEN x ELSE default

\* line 465
complete_profile(user_data) == {"shop", "name", "position"} \subseteq DOMAIN user_data

\* lines 479-484
profile_of(user) ==
    [shop |-> or_default(user.shop, NotSpecifiedShop),
     name |-> or_default(user.name, NotSpecifiedName),
     surname |-> or_default(user.surname, NotSpecifiedName),
     position |-> or_default(user.position, NotSpecifiedPosition)]

\* lines 477-488 on the list users_records, starting from the cache c
find_user(c, user_id, users_records) ==
    LET hits == {i \in 1..Len(users_records) :
                    strip(users_records[i].id) = strip(user_id)}
    IN IF hits = {} THEN [ret |-> None, cache |-> c]
       ELSE LET first == CHOOSE i \in hits : \A j \in hits : i <= j
                user_data == profile_of(users_records[first])
            IN [ret |-> <<user_data>>,
                cache |-> cache_setitem(c, UserKey(user_id), user_data)]

\* a load that reads 'users_data' without making it the most recently used
load_user_untouched(c, user_id, api_ok) ==
    IF ~cache_contains(c, UsersDataKey)
    THEN [ret |-> None, cache |-> c]
    ELSE LET pickled == cache_value(c, UsersDataKey).records
         IN IF pickled # <<>> THEN find_user(c, user_id, pickled)
            ELSE IF ~api_ok THEN [ret |-> None, cache |-> c]
            ELSE find_user(cache_setitem(c, UsersDataKey, [records |-> users_sheet]),
                           user_id, users_sheet)

\* lines 472-475 and on, starting from the cache c; api_ok: the read of the
\* worksheet succeeds
load_user(c, user_id, api_ok) ==
    IF ~cache_contains(c, UsersDataKey)
    \* pickle.loads(b"") raises EOFError; lines 489-491 return None
    THEN [ret |-> None, cache |-> c]
    ELSE LET c1 == cache_getitem(c, UsersDataKey)
             pickled == cache_value(c, UsersDataKey).records
         IN IF pickled # <<>> THEN find_user(c1, user_id, pickled)
            ELSE IF ~api_ok THEN [ret |-> None, cache |-> c1]
            ELSE find_user(cache_setitem(c1, UsersDataKey, [records |-> users_sheet]),
                           user_id, users_sheet)

\* the value returned (None or <<dict>>) and the cache left behind
get_user_data(c, user_id, api_ok) ==
    LET cache_key == UserKey(user_id)
    IN IF cache_contains(c, cache_key)
       THEN LET c1 == cache_getitem(c, cache_key)
                user_data == cache_value(c, cache_key)
            IN IF complete_profile(user_data)
               THEN [ret |-> <<user_data>>, cache |-> c1]
               ELSE load_user(cache_pop(c1, cache_key), user_id, api_ok)
       ELSE load_user(c, user_id, api_ok)

\* log_user_activity (506-528): the cache it leaves; the row appended to the
\* statistics worksheet is not kept
log_user_activity(c, user_id, api_ok) == get_user_data(c, user_id, api_ok).cache

\* a reload that drops the entries before it reads the worksheet
preload_cache_clearing(c, api_ok) ==
    IF api_ok
    THEN <<[key |-> UsersDataKey, value |-> [records |-> users_sheet], born |-> 1]>>
    ELSE <<>>

\* preload_cache (785-797): the cache it leaves; a failed read of the
\* worksheet is logged and nothing is stored.  The size logged at line 793
\* is summed over cache.values()
preload_cache(c, api_ok) ==
    IF api_ok
    THEN cache_values(cache_setitem(c, UsersDataKey, [records |-> users_sheet]))
    ELSE c

\* what preload_cache logs (lines 793-797)
preload_log(api_ok) == IF api_ok THEN <<"cache loaded">> ELSE <<"cache load error">>

\* cache.clear()
cache_clear(c) == <<>>

\* ------------------------------------------------------------------------
\* Messages, keyboards and FSM states (src/main.py 320-400)
\* ------------------------------------------------------------------------
BtnBack == <<8617, 65039, 32, 1053, 1072, 1079, 1072, 1076>>
BtnMainMenu ==
    <<128281, 32, 1043, 1083, 1072, 1074, 1085, 1086, 1077, 32, 1084, 1077, 1085,
      1102>>
BtnCancel == <<10060, 32, 1054, 1090, 1084, 1077, 1085, 1072>>
\* "отмена"
TxtOtmena == <<1086, 1090, 1084, 1077, 1085, 1072>>
BtnOrder ==
    <<128722, 32, 1047, 1072, 1082, 1072, 1079, 32, 1087, 1086, 1076, 32, 1082,
      1083, 1080, 1077, 1085, 1090, 1072>>
BtnInfo ==
    <<128203, 32, 1047, 1072, 1087, 1088, 1086, 1089, 32, 1080, 1085, 1092, 1086,
      1088, 1084, 1072, 1094, 1080, 1080>>
BtnMyShop ==
    <<1048, 1089, 1087, 1086, 1083, 1100, 1079, 1086, 1074, 1072, 1090, 1100, 32,
      1084, 1086, 1081, 32, 1084, 1072, 1075, 1072, 1079, 1080, 1085>>
BtnOtherShop ==
    <<1042, 1099, 1073, 1088, 1072, 1090, 1100, 32, 1076, 1088, 1091, 1075, 1086,
      1081>>
BtnConfirm ==
    <<9989, 32, 1055, 1086, 1076, 1090, 1074, 1077, 1088, 1076, 1080, 1090, 1100>>
BtnFixQuantity ==
    <<9999, 65039, 32, 1048, 1089, 1087, 1088, 1072, 1074, 1080, 1090, 1100, 32,
      1082, 1086, 1083, 1080, 1095, 1077, 1089, 1090, 1074, 1086>>

\* str.casefold on Latin and Cyrillic capitals
casefold_char(ch) ==
    IF ch \in 65..90 \/ ch \in 1040..1071 THEN ch + 32 ELSE ch
casefold(s) == [i \in 1..Len(s) |-> casefold_char(s[i])]

\* re.match(r'^\d{4,10}$', article)
is_article(s) == Len(s) \in 4..10 /\ \A i \in 1..Len(s) : IsDecimalChar(s[i])

\* s.startswith('0')
startswith_0(s) == Len(s) > 0 /\ s[1] = CH0

\* "/start" and the admin panel's cache button (1043, 1743)
CmdStart == <<47, 115, 116, 97, 114, 116>>
BtnRefreshCache ==
    <<128260, 32, 1054, 1073, 1085, 1086, 1074, 1080, 1090, 1100, 32, 1082, 1101,
      1096>>
\* the admin panel's statistics button (1470)
BtnStats == <<128202, 32, 1057, 1090, 1072, 1090, 1080, 1089, 1090, 1080, 1082, 1072>>

\* the button of a new task (1875) and "/skip" (1888, 1896)
BtnAddTask ==
    <<10133, 32, 1044, 1086, 1073, 1072, 1074, 1080, 1090, 1100, 32, 1079, 1072,
      1076, 1072, 1095, 1091>>
CmdSkip == <<47, 115, 107, 105, 112>>

\* the buttons of the service mode (1770, 1781)
BtnEnableService ==
    <<128994, 32, 1042, 1082, 1083, 1102, 1095, 1080, 1090, 1100, 32, 1089, 1077,
      1088, 1074, 1080, 1089, 1085, 1099, 1081, 32, 1088, 1077, 1078, 1080, 1084>>
BtnDisableService ==
    <<128308, 32, 1042, 1099, 1082, 1083, 1102, 1095, 1080, 1090, 1100, 32, 1089,
      1077, 1088, 1074, 1080, 1089, 1085, 1099, 1081, 32, 1088, 1077, 1078, 1080,
      1084>>

\* ADMINS (line 264), as the decimal texts of the ids
Admin1 == <<49, 50, 50, 48, 56, 54, 55, 57, 57>>
Admin2 == <<53, 49, 56, 51, 55, 50, 55, 48, 49, 53>>
ADMINS == {Admin1, Admin2}

NoState == ""
RegistrationName == "Registration:name"
RegistrationSurname == "Registration:surname"
RegistrationPosition == "Registration:position"
RegistrationShop == "Registration:shop"
OrderArticleInput == "OrderStates:article_input"
OrderShopSelection == "OrderStates:shop_selection"
OrderShopInput == "OrderStates:shop_input"
OrderQuantityInput == "OrderStates:quantity_input"
OrderReasonInput == "OrderStates:order_reason_input"
OrderConfirmation == "OrderStates:confirmation"
TaskAddText == "TaskStates:add_text"
TaskAddLink == "TaskStates:add_link"
TaskAddDeadline == "TaskStates:add_deadline"
InfoArticleInput == "InfoRequest:article_input"

\* the handler a text message is dispatched to: the first registered one
\* whose filters match (registration order of lines 1043-1743); the admin
\* handlers registered between 1459 and 1743 wait for other buttons and for
\* the broadcast states, which are not entered here
Route(state, text) ==
    IF text = CmdStart THEN "start_handler"
    ELSE IF state = RegistrationName THEN "process_name"
    ELSE IF state = RegistrationSurname THEN "process_surname"
    ELSE IF state = RegistrationPosition THEN "process_position"
    ELSE IF state = RegistrationShop THEN "process_shop"
    ELSE IF text \in {BtnBack, BtnMainMenu} THEN "handle_back"
    ELSE IF casefold(text) = TxtOtmena \/ text = BtnCancel THEN "cancel_handler"
    ELSE IF text = BtnOrder THEN "handle_client_order"
    ELSE IF state = OrderArticleInput THEN "process_article_input"
    ELSE IF state = OrderShopSelection THEN "process_shop_selection"
    ELSE IF state = OrderShopInput THEN "process_custom_shop"
    ELSE IF state = OrderQuantityInput THEN "process_quantity"
    ELSE IF state = OrderReasonInput THEN "process_order_reason"
    ELSE IF state = OrderConfirmation /\ text = BtnConfirm THEN "final_confirmation"
    ELSE IF state = OrderConfirmation /\ text = BtnFixQuantity THEN "correct_quantity"
    ELSE IF text = BtnInfo THEN "handle_info_request"
    ELSE IF state = InfoArticleInput THEN "process_info_request"
    ELSE IF text = BtnStats THEN "handle_admin_stats"
    ELSE IF text = BtnRefreshCache THEN "handle_cache_refresh"
    ELSE IF text = BtnEnableService THEN "enable_service_mode"
    ELSE IF text = BtnDisableService THEN "disable_service_mode"
    ELSE IF text = BtnAddTask THEN "add_task_text"
    ELSE IF state = TaskAddText THEN "add_task_link"
    ELSE IF state = TaskAddLink THEN "add_task_deadline"
    ELSE IF state = TaskAddDeadline THEN "save_task_handler"
    ELSE "other"

\* ------------------------------------------------------------------------
\* Handlers (src/main.py 1113-1455).  A handler yields the FSM state and
\* data it leaves, the cache, the messages sent, whether it raised, and the
\* get_product_info call it made (None or <<call>>).
\* ------------------------------------------------------------------------
Msg(tpl) == [tpl |-> tpl, warning |-> FALSE]

\* a message that names whom it is sent to, and whether it carries the text
\* of an exception (with global_error_handler: its type and traceback too)
ErrorMsg(tpl, to, details) ==
    [tpl |-> tpl, warning |-> FALSE, to |-> to, details |-> details]

\* d.get(key, default)
dict_get(d, key, default) == IF key \in DOMAIN d THEN d[key] ELSE default

\* state.update_data(**upd)
update_data(d, upd) == upd @@ d

Done(state, d, c, msgs) ==
    [fsm |-> state, data |-> d, cache |-> c, out |-> msgs, raised |-> FALSE,
     lookup |-> None]

Raised(state, d, c) ==
    [fsm |-> state, data |-> d, cache |-> c, out |-> <<>>, raised |-> TRUE,
     lookup |-> None]

Looked(eff, article, shop, product_data, run) ==
    [eff EXCEPT !.lookup = <<[article |-> article, shop |-> shop,
                              product |-> product_data, run |-> run]>>]

\* the warning is left out of every summary
top_0_never(d, key) == FALSE

\* product_info.get('Топ в магазине', '0') == '0' (1226, 1442) and
\* data.get('top_in_shop', '0') == '0' (1268)
top_0(d, key) == dict_get(d, key, Dg(0)) = Dg(0)

\* lines 1114-1118
handle_back(state, d, c) == Done(NoState, <<>>, c, <<Msg("back_to_menu")>>)

\* lines 1122-1131
cancel_handler(state, d, c, now) ==
    IF state # NoState
    THEN Done(NoState, <<>>, c, <<Msg("cancelled")>>)
    ELSE Done(state, update_data(d, [last_activity |-> now]), c, <<>>)

\* lines 1135-1153
handle_client_order(user_id, state, d, c, now, api_ok) ==
    LET d1 == update_data(d, [last_activity |-> now])
        got == get_user_data(c, user_id, api_ok)
    IN IF got.ret = None
       THEN Done(state, d1, got.cache, <<Msg("not_registered")>>)
       ELSE LET user_data == got.ret[1]
                d2 == update_data(d1, [shop |-> user_data.shop,
                                       user_name |-> user_data.name,
                                       user_position |-> user_data.position])
            IN Done(OrderArticleInput, d2,
                    log_user_activity(got.cache, user_id, api_ok),
                    <<Msg("ask_article")>>)

\* lines 1157-1171
process_article_input(text, state, d, c) ==
    LET article == strip(text)
    IN IF ~is_article(article) THEN Done(state, d, c, <<Msg("bad_article")>>)
       ELSE Done(OrderShopSelection, update_data(d, [article |-> article]), c,
                 <<Msg("choose_shop")>>)

\* the wizard going on to the quantity whatever get_product_info returned
order_outcome_unchecked(d, c, article, selected_shop, product_data, run) ==
    Looked(Done(OrderQuantityInput, d, c, <<Msg("loading"), Msg("ask_quantity")>>),
           article, selected_shop, product_data, run)

\* lines 1212-1242 of continue_order_process: run is what get_product_info
\* did for product_data
order_outcome(d, c, article, selected_shop, product_data, run) ==
    IF run.result = None
    THEN Looked(Done(NoState, <<>>, c, <<Msg("loading"), Msg("not_found_in_shop")>>),
                article, selected_shop, product_data, run)
    ELSE Looked(Done(OrderQuantityInput,
                     update_data(d,
                         [product_name |-> run.result[1].name,
                          department |-> run.result[1].department,
                          supplier_name |-> run.result[1].supplier,
                          order_date |-> run.result[1].order_date,
                          delivery_date |-> run.result[1].delivery_date,
                          top_in_shop |-> dict_get(run.result[1], "top", Dg(0))]),
                     c,
                     <<Msg("loading"),
                       [tpl |-> "product_summary",
                        warning |-> top_0(run.result[1], "top")],
                       Msg("ask_quantity")>>),
                article, selected_shop, product_data, run)

\* continue_order_process (1203-1242), one outcome for each value
\* get_product_data_from_db can return
continue_order_process(d, c, now) ==
    LET article == dict_get(d, "article", None)
        selected_shop == dict_get(d, "selected_shop", None)
    IN { order_outcome(d, c, article, selected_shop, product_data,
                       get_product_info_from(article, selected_shop, product_data,
                                             now))
         : product_data \in get_product_data_from_db(article, selected_shop) }

\* lines 1175-1191; user_data['shop'] of None raises TypeError
process_shop_selection(user_id, text, state, d, c, now, api_ok) ==
    LET got == get_user_data(c, user_id, api_ok)
    IN IF text = BtnMyShop
       THEN IF got.ret = None THEN {Raised(state, d, got.cache)}
            ELSE continue_order_process(
                     update_data(d, [selected_shop |-> got.ret[1].shop]),
                     got.cache, now)
       ELSE IF text = BtnOtherShop
       THEN {Done(OrderShopInput, d, got.cache, <<Msg("ask_shop")>>)}
       ELSE {Done(state, d, got.cache, <<Msg("bad_choice")>>)}

\* lines 1194-1201
process_custom_shop(text, state, d, c, now) ==
    LET shop == strip(text)
    IN IF ~isdigit(shop) \/ startswith_0(shop)
       THEN {Done(state, d, c, <<Msg("bad_shop")>>)}
       ELSE continue_order_process(update_data(d, [selected_shop |-> shop]), c, now)

\* lines 1245-1256
process_quantity(text, state, d, c) ==
    LET quantity == strip(text)
    IN IF ~isdigit(quantity) THEN Done(state, d, c, <<Msg("bad_quantity")>>)
       ELSE IF int_raises(quantity) THEN Raised(state, d, c)
       ELSE Done(OrderReasonInput, update_data(d, [quantity |-> int(quantity)]), c,
                 <<Msg("ask_reason")>>)

\* lines 1259-1285; data['article'] and the like raise KeyError when absent
process_order_reason(text, state, d, c) ==
    LET d1 == update_data(d, [order_reason |-> strip(text)])
        shown == {"article", "product_name", "supplier_name", "order_date",
                  "delivery_date", "quantity"}
    IN IF ~(shown \subseteq DOMAIN d1) THEN Raised(state, d1, c)
       ELSE Done(OrderConfirmation, d1, c,
                 <<[tpl |-> "confirm_summary",
                    warning |-> top_0(d1, "top_in_shop")]>>)

\* final_confirmation (1288-1321) on the rows written so far.  sheet_ok: the
\* department's worksheet is found and batch_update succeeds; reply_ok: the
\* message.answer after the write succeeds.  A missing field raises
\* ValueError or KeyError before anything is written.
final_confirmation(user_id, state, d, c, rows, now, sheet_ok, reply_ok, api_ok) ==
    LET d1 == update_data(d, [last_activity |-> now])
    IN IF ~({"selected_shop", "article", "order_reason", "quantity", "department",
             "user_name", "user_position"} \subseteq DOMAIN d1)
          \/ ~sheet_ok
       THEN Raised(state, d1, c)
       ELSE IF int_raises(d1.article) THEN Raised(state, d1, c)
       ELSE LET written ==
                    Append(rows, [department |-> d1.department,
                                  shop |-> d1.selected_shop,
                                  article |-> int(d1.article),
                                  reason |-> d1.order_reason,
                                  date |-> now,
                                  name |-> d1.user_name,
                                  position |-> d1.user_position,
                                  quantity |-> d1.quantity,
                                  by |-> user_id])
            IN IF ~reply_ok THEN [orders |-> written] @@ Raised(state, d1, c)
               ELSE [orders |-> written]
                    @@ Done(NoState, <<>>, log_user_activity(c, user_id, api_ok),
                            <<Msg("order_saved")>>)

\* lines 1326-1330
correct_quantity(state, d, c) ==
    Done(OrderQuantityInput, d, c, <<Msg("ask_new_quantity")>>)

\* lines 1335-1365
handle_info_request(user_id, state, d, c, now, api_ok) ==
    LET d1 == update_data(d, [last_activity |-> now])
        got == get_user_data(log_user_activity(c, user_id, api_ok), user_id, api_ok)
    IN IF got.ret = None
       THEN Done(state, d1, got.cache, <<Msg("not_registered")>>)
       ELSE LET shop == dict_get(got.ret[1], "shop", NotSpecifiedShop)
            IN IF shop = NotSpecifiedShop
               THEN Done(state, d1, got.cache, <<Msg("no_shop_in_profile")>>)
               ELSE Done(InfoArticleInput,
                         [shop |-> shop, last_activity |-> now], got.cache,
                         <<Msg("ask_article")>>)

\* lines 1423-1446 of process_info_request: run is what get_product_info did
\* for product_data
info_outcome(c, article, shop, product_data, run) ==
    IF run.result = None
    THEN Looked(Done(NoState, <<>>, c, <<Msg("searching"), Msg("not_found")>>),
                article, shop, product_data, run)
    ELSE Looked(Done(NoState, <<>>, c,
                     <<Msg("searching"),
                       [tpl |-> "info_reply",
                        warning |-> top_0(run.result[1], "top")]>>),
                article, shop, product_data, run)

\* lines 1403-1446 of process_info_request, for the data d and cache c
info_lookup(text, state, d, c, shop, now) ==
    LET article == strip(text)
    IN IF ~is_article(article) THEN {Done(state, d, c, <<Msg("bad_article")>>)}
       ELSE { info_outcome(c, article, shop, product_data,
                           get_product_info_from(article, shop, product_data, now))
              : product_data \in get_product_data_from_db(article, shop) }

\* lines 1373-1401 of process_info_request: the shop to look in, taken from
\* the state data or restored from the profile
info_shop(user_id, d, c, api_ok) ==
    IF "shop" \in DOMAIN d
    THEN [found |-> TRUE, shop |-> d.shop, data |-> d, cache |-> c, out |-> <<>>]
    ELSE LET got == get_user_data(c, user_id, api_ok)
         IN IF got.ret = None
            THEN [found |-> FALSE, shop |-> None, data |-> d, cache |-> got.cache,
                  out |-> <<Msg("profile_not_found")>>]
            ELSE IF dict_get(got.ret[1], "shop", NotSpecifiedShop) = NotSpecifiedShop
            THEN [found |-> FALSE, shop |-> None, data |-> d, cache |-> got.cache,
                  out |-> <<Msg("no_shop_in_profile")>>]
            ELSE [found |-> TRUE, shop |-> got.ret[1].shop,
                  data |-> update_data(d, [shop |-> got.ret[1].shop]),
                  cache |-> got.cache, out |-> <<>>]

\* lines 1369-1454
process_info_request(user_id, text, state, d, c, now, api_ok) ==
    LET known == info_shop(user_id, d, c, api_ok)
    IN IF ~known.found THEN {Done(NoState, <<>>, known.cache, known.out)}
       ELSE info_lookup(text, state, known.data, known.cache, known.shop, now)

\* lines 1044-1059
start_handler(user_id, state, d, c, now, api_ok) ==
    LET d1 == update_data(d, [last_activity |-> now])
        got == get_user_data(c, user_id, api_ok)
    IN IF got.ret # None
       THEN Done(state, d1, got.cache, <<Msg("main_menu")>>)
       ELSE Done(RegistrationName, d1, log_user_activity(got.cache, user_id, api_ok),
                 <<Msg("ask_name")>>)

\* lines 1062-1065
process_name(text, d, c, now) ==
    Done(RegistrationSurname,
         update_data(d, [last_activity |-> now, name |-> strip(text)]), c,
         <<Msg("ask_surname")>>)

\* lines 1068-1071
process_surname(text, d, c, now) ==
    Done(RegistrationPosition,
         update_data(d, [last_activity |-> now, surname |-> strip(text)]), c,
         <<Msg("ask_position")>>)

\* lines 1074-1077
process_position(text, d, c, now) ==
    Done(RegistrationShop,
         update_data(d, [last_activity |-> now, position |-> strip(text)]), c,
         <<Msg("ask_shop")>>)

\* lines 1080-1110 on the worksheet rows; append_ok and api_ok: append_row
\* and the get_all_records() after it succeed
process_shop(user_id, text, state, d, c, rows, now, append_ok, api_ok) ==
    LET d1 == update_data(d, [last_activity |-> now])
        shop == strip(text)
    IN IF ~isdigit(shop) THEN Done(state, d1, c, <<Msg("shop_not_a_number")>>)
       ELSE IF ~({"name", "surname", "position"} \subseteq DOMAIN d1) \/ ~append_ok
       THEN Raised(state, d1, c)
       ELSE LET appended == Append(rows, [id |-> user_id, shop |-> shop,
                                          name |-> d1.name, surname |-> d1.surname,
                                          position |-> d1.position])
                c1 == cache_pop(c, UserKey(user_id))
                c2 == IF api_ok
                      THEN cache_setitem(c1, UsersDataKey, [records |-> appended])
                      ELSE c1
            IN [users_sheet |-> appended]
               @@ Done(NoState, <<>>, c2, <<Msg("registration_done")>>)

\* handle_admin_stats (1470-1507); api_ok: the statistics worksheet is read.
\* pickle.loads(b"[]") of an absent 'users_data' raises UnpicklingError, and
\* the except branch answers the admin with the text of the exception
handle_admin_stats(user_id, state, d, c, api_ok) ==
    IF user_id \notin ADMINS THEN Done(state, d, c, <<>>)
    ELSE IF ~cache_contains(c, UsersDataKey) \/ ~api_ok
    THEN Done(state, d, cache_getitem(c, UsersDataKey),
              <<ErrorMsg("statistics_error", user_id, TRUE)>>)
    ELSE Done(state, d, cache_getitem(c, UsersDataKey), <<Msg("statistics")>>)

\* lines 1744-1756: preload_cache catches its own exception, so the except
\* branch of line 1754 is left to a failing message.answer
handle_cache_refresh(user_id, state, d, c, api_ok) ==
    IF user_id \notin ADMINS THEN Done(state, d, c, <<>>)
    ELSE [logged |-> preload_log(api_ok)]
         @@ Done(state, d, preload_cache(cache_clear(c), api_ok),
                 <<Msg("cache_refreshed")>>)

\* lines 1770-1779 and 1781-1790
enable_service_mode(user_id, state, d, c) ==
    IF user_id \notin ADMINS THEN Done(state, d, c, <<>>)
    ELSE [service_mode |-> TRUE] @@ Done(state, d, c, <<Msg("service_mode_on")>>)

disable_service_mode(user_id, state, d, c) ==
    IF user_id \notin ADMINS THEN Done(state, d, c, <<>>)
    ELSE [service_mode |-> FALSE] @@ Done(state, d, c, <<Msg("service_mode_off")>>)

\* json.dumps({"user_ids": []}): the cell "Статусы" of a new task (line 577)
NewStatuses == [kind |-> "dict", dict |-> [user_ids |-> <<>>]]

\* save_task (558-578) on the rows of the worksheet
save_task(rows, task_id, text, creator_id, link, deadline) ==
    Append(rows, [id |-> task_id, text |-> text, link |-> link,
                  deadline |-> deadline, creator |-> creator_id,
                  statuses |-> NewStatuses])

\* re.match(r"^\d{2}\.\d{2}\.\d{4}$", deadline); $ matches before a final
\* newline too
is_deadline(s) ==
    LET t == IF Len(s) = 11 /\ s[11] = 10 THEN SubSeq(s, 1, 10) ELSE s
    IN /\ Len(t) = 10
       /\ \A i \in {1, 2, 4, 5, 7, 8, 9, 10} : IsDecimalChar(t[i])
       /\ t[3] = 46 /\ t[6] = 46

\* lines 1875-1878, 1880-1884 and 1886-1891
add_task_text(state, d, c) == Done(TaskAddText, d, c, <<Msg("ask_task_text")>>)

add_task_link(text, state, d, c) ==
    Done(TaskAddLink, update_data(d, [text |-> text]), c, <<Msg("ask_task_link")>>)

add_task_deadline(text, state, d, c) ==
    Done(TaskAddDeadline,
         update_data(d, [link |-> IF text = CmdSkip THEN None ELSE <<text>>]), c,
         <<Msg("ask_task_deadline")>>)

\* save_task_handler (1893-1920); task_id is str(int(time.time())), and
\* get_user_initials reads the profile through get_user_data
save_task_handler(user_id, text, state, d, c, rows, task_id, api_ok) ==
    LET deadline == IF text = CmdSkip THEN None ELSE <<text>>
        got == get_user_data(c, user_id, api_ok)
    IN IF deadline # None /\ text # <<>> /\ ~is_deadline(text)
       THEN Done(state, d, c, <<Msg("bad_deadline")>>)
       ELSE IF "text" \notin DOMAIN d THEN Raised(state, d, got.cache)
       ELSE [tasks |-> save_task(rows, task_id, d.text, user_id,
                                 dict_get(d, "link", None), deadline)]
            @@ Done(NoState, <<>>, got.cache, <<Msg("task_added")>>)

\* the cell "Статусы" of a row: blank, a text that is no JSON, a JSON value
\* that is no object, or a JSON object of lists of ids
BlankCell == [kind |-> "blank"]
NoJsonCell == [kind |-> "invalid"]
JsonListCell == [kind |-> "list"]
JsonDictCell(dict) == [kind |-> "dict", dict |-> dict]

\* [str(uid).strip() for uid in ids if str(uid).strip()] (line 626)
stripped_ids(ids) ==
    LET kept == SelectSeq(ids, LAMBDA uid : strip(uid) # <<>>)
    IN [i \in 1..Len(kept) |-> strip(kept[i])]

\* the completed_by of a row as load_tasks (610-654) reads it
completed_by_of(cell) ==
    IF cell.kind # "dict" THEN <<>>
    ELSE IF "completed_by" \in DOMAIN cell.dict
    THEN stripped_ids(cell.dict.completed_by)
    ELSE IF "user_ids" \in DOMAIN cell.dict THEN stripped_ids(cell.dict.user_ids)
    ELSE <<>>

\* load_tasks (596-660) on the rows of the worksheet: task id -> completed_by;
\* a later row of the same id replaces an earlier one
load_tasks(rows) ==
    [task_id \in {strip(rows[i].id) : i \in 1..Len(rows)} \ {<<>>} |->
        LET last == CHOOSE i \in 1..Len(rows) :
                        /\ strip(rows[i].id) = task_id
                        /\ \A j \in i + 1..Len(rows) : strip(rows[j].id) # task_id
        IN completed_by_of(rows[last].statuses)]

\* mark_task_done (2280-2338) on the rows of the worksheet; sheet_ok: the
\* calls of the worksheet succeed.  sheet.find gives the first cell that
\* holds task_id; every exception ends in the answer of line 2337
mark_task_done(user_id, task_id, state, d, c, rows, sheet_ok) ==
    LET found == {i \in 1..Len(rows) : rows[i].id = task_id}
    IN IF ~sheet_ok THEN Done(state, d, c, <<Msg("mark_error")>>)
       ELSE IF found = {} THEN Done(state, d, c, <<Msg("task_not_found")>>)
       ELSE LET row == CHOOSE i \in found : \A j \in found : i <= j
                cell == rows[row].statuses
                statuses_data == IF cell.kind = "dict" THEN cell.dict ELSE <<>>
                with_key == IF "completed_by" \in DOMAIN statuses_data
                            THEN statuses_data
                            ELSE [completed_by |-> <<>>] @@ statuses_data
            IN \* a list has no key to assign to: TypeError
               IF cell.kind = "list" THEN Done(state, d, c, <<Msg("mark_error")>>)
               ELSE IF \E i \in 1..Len(with_key.completed_by) :
                          with_key.completed_by[i] = user_id
               THEN Done(state, d, c, <<Msg("already_marked")>>)
               ELSE [tasks |-> [rows EXCEPT ![row].statuses =
                                   JsonDictCell([with_key EXCEPT !.completed_by =
                                                     Append(@, user_id)])]]
                    @@ Done(state, d, c, <<Msg("marked_done")>>)

\* a service mode that keeps the admins out too
service_mode_for_everyone(mode, user_id) == mode

\* service_mode_middleware (942-954): the update of user_id is answered with
\* the notice and handed to no handler
service_mode_middleware(mode, user_id) == mode /\ user_id \notin ADMINS

\* the users that write to the bot, and what they send
User1 == Dg(9)
ChatUsers == {User1}

UserRow(shop) ==
    [id |-> <<SP>> \o User1, shop |-> shop, name |-> Ltr(14), surname |-> <<>>,
     position |-> Ltr(16)]

UserSheets == {<<>>, <<UserRow(Shop5)>>, <<UserRow(Shop6)>>, <<UserRow(<<>>)>>}

\* the buttons, and the typed texts "1234 ", "12345" and "6"
Texts ==
    {BtnBack, BtnCancel, BtnOrder, BtnInfo, BtnMyShop, BtnOtherShop,
     BtnFixQuantity, A1234 \o <<SP>>, A12345, Shop6}

\* the worksheets a rebuild is watched on: one that imports, one with a row
\* that lacks a column
RebuildSheets == {<<RowPlain, RowNoSupplier>>, <<RowPlain, RowNoGamma>>, <<>>}

\* the catalog and the schedule tables the chat runs on
ChatSheet == <<RowPlain, RowNoSupplier, RowLonger>>
ChatSchedules ==
    [s \in Shops |-> IF s = Shop5 THEN Table({SchedGood7})
                     ELSE IF s = Shop6 THEN Table({SchedGood7, SchedDup8})
                     ELSE AbsentTable]

\* ------------------------------------------------------------------------
\* SpecCalc: the delivery-date calculator on drawn inputs
\* ------------------------------------------------------------------------
OrderDaySets == {S \in SUBSET (0..MaxOrderDay) : Cardinality(S) <= 3}

CalcInputs ==
    [supplier_id : {Sup7},
     order_days : {SortedSeqOf(S) : S \in OrderDaySets},
     delivery_days : 0..MaxLead]

\* repeat (history): 2 once the same arguments were asked again on the same
\* day with no import run in between, else 1
NoCall ==
    [made |-> FALSE, article |-> <<>>, shop |-> <<>>, day |-> 0, repeat |-> 0,
     product |-> None, result |-> None, during |-> "exit"]

\* nobody registered, an empty cache, no chat session
InitChatIdle ==
    /\ users_sheet = <<>>
    /\ cache = <<>>
    /\ fsm = [u \in ChatUsers |-> NoState]
    /\ data = [u \in ChatUsers |-> <<>>]
    /\ out = <<>>
    /\ retrying = None
    /\ logged = <<>>

\* no database file, an empty worksheet, nothing called yet
InitStores ==
    /\ sheet = <<>>
    /\ db_exists = FALSE
    /\ articles = {}
    /\ schedules = [s \in Shops |-> AbsentTable]
    /\ import_out = NoImport
    /\ call = NoCall
    /\ refreshed = FALSE
    /\ importer = NotRunning
    /\ parse_arg = NoRecord
    /\ parse_ret = NotParsed
    /\ InitSide
    /\ InitChatIdle

InitCalc ==
    /\ today \in Days
    /\ calc_arg \in CalcInputs
    /\ calc_ret = NotCalled
    /\ InitStores

CalcCall ==
    /\ calc_ret = NotCalled
    /\ calc_ret' = calculate_delivery_date(calc_arg, today)
    /\ UNCHANGED <<today, calc_arg, sheet, db_exists, articles, schedules,
                   import_out, call, refreshed>>
    /\ UNCHANGED <<chat_vars, importer, parse_vars, side_vars>>

NextCalc == CalcCall

SpecCalc == InitCalc /\ [][NextCalc]_vars

\* ------------------------------------------------------------------------
\* SpecParse: parse_supplier_data on a schedule row
\* ------------------------------------------------------------------------
\* what a field of a schedule row can hold: "", " ", "x", "0", " 2 ", "7",
\* "8" and the superscript two
FieldTexts ==
    {<<>>, <<SP>>, <<CHX>>, Dg(0), <<SP>> \o Dg(2) \o <<SP>>, Dg(7), Dg(8),
     <<CH2SUP>>}

ScheduleRecords ==
    [supplier_id : {Sup7}, supplier_name : {Ltr(19)}, lead : FieldTexts,
     day1 : FieldTexts, day2 : FieldTexts, day3 : FieldTexts]

InitParse ==
    /\ today = FirstDay
    /\ calc_arg = NoArg
    /\ calc_ret = NotCalled
    /\ sheet = <<>>
    /\ db_exists = FALSE
    /\ articles = {}
    /\ schedules = [s \in Shops |-> AbsentTable]
    /\ import_out = NoImport
    /\ call = NoCall
    /\ refreshed = FALSE
    /\ importer = NotRunning
    /\ parse_arg \in ScheduleRecords
    /\ parse_ret = NotParsed
    /\ InitSide
    /\ InitChatIdle

\* parse_supplier_data(parse_arg)
ParseCall ==
    /\ ~parse_ret.called
    /\ parse_ret' = IF parse_supplier_data_raises(parse_arg)
                    THEN [called |-> TRUE, raised |-> TRUE, value |-> NoArg]
                    ELSE [called |-> TRUE, raised |-> FALSE,
                          value |-> parse_supplier_data(parse_arg)]
    /\ UNCHANGED <<today, calc_arg, calc_ret, sheet, db_exists, articles, schedules,
                   import_out, call, refreshed, chat_vars, importer, parse_arg,
                   side_vars>>

NextParse == ParseCall

SpecParse == InitParse /\ [][NextParse]_vars

\* ------------------------------------------------------------------------
\* SpecResolve: the import script and product lookups on one database
\* ------------------------------------------------------------------------
InitResolve ==
    /\ today \in FirstDay..(FirstDay + ResolveDays - 1)
    /\ calc_arg = NoArg
    /\ calc_ret = NotCalled
    /\ sheet \in ResolveSheets
    /\ db_exists \in BOOLEAN
    /\ articles = {}
    /\ schedules \in [Shops -> UNION {ScheduleTables(s) : s \in Shops}]
    /\ \A s \in Shops : schedules[s] \in ScheduleTables(s)
    /\ ~db_exists => \A s \in Shops : schedules[s] = AbsentTable
    /\ import_out = NoImport
    /\ call = NoCall
    /\ refreshed = FALSE
    /\ importer = NotRunning
    /\ parse_arg = NoRecord
    /\ parse_ret = NotParsed
    /\ InitSide
    /\ InitChatIdle

\* the clock passes midnight
Tick ==
    /\ today + 1 < FirstDay + ResolveDays
    /\ today' = today + 1
    /\ UNCHANGED <<calc_arg, calc_ret, sheet, db_exists, articles, schedules,
                   import_out, call, refreshed>>
    /\ UNCHANGED <<chat_vars, importer, parse_vars, side_vars>>

\* one run of the import script (lines 90-98): prepare_db creates the file and
\* the table; get_sheet_data may raise; import_data deletes, inserts and
\* commits, and whatever raises before the commit leaves the table as it was
ImportRun(fetch_ok) ==
    LET prepared == prepared_rows(sheet)
        error == import_error(fetch_ok, sheet, prepared)
        done == error = ""
    IN /\ db_exists' = TRUE
       /\ articles' = committed_rows(done, prepared, articles)
       /\ import_out' = [ran |-> TRUE, ok |-> done,
                         imported |-> IF done THEN Len(prepared) ELSE 0,
                         error |-> error]
       /\ refreshed' = TRUE
       /\ UNCHANGED <<today, calc_arg, calc_ret, sheet, schedules, call>>
       /\ UNCHANGED <<chat_vars, importer, parse_vars, side_vars>>

\* await get_product_info(article, shop)
GetProductInfo(article, shop) ==
    \E product_data \in get_product_data_from_db(article, shop) :
        LET run == get_product_info_from(article, shop, product_data, today)
            again == /\ call.made /\ ~refreshed
                     /\ call.article = article /\ call.shop = shop
                     /\ call.day = today
        IN /\ call' = [made |-> TRUE, article |-> article, shop |-> shop,
                       day |-> today, repeat |-> IF again THEN 2 ELSE 1,
                       product |-> product_data, result |-> run.result,
                       during |-> importer.pc]
           /\ calc_arg' = run.calc_arg
           /\ calc_ret' = run.calc_ret
           /\ refreshed' = FALSE
           /\ UNCHANGED <<today, sheet, db_exists, articles, schedules, import_out>>
           /\ UNCHANGED <<chat_vars, importer, parse_vars, side_vars>>

NextResolve ==
    \/ Tick
    \/ \E fetch_ok \in BOOLEAN : ImportRun(fetch_ok)
    \/ \E article \in AskedArticles, shop \in AskedShops : GetProductInfo(article, shop)

SpecResolve == InitResolve /\ [][NextResolve]_vars

\* ------------------------------------------------------------------------
\* SpecImport: runs of the import script on drawn worksheets
\* ------------------------------------------------------------------------
InitImport ==
    /\ today = FirstDay
    /\ calc_arg = NoArg
    /\ calc_ret = NotCalled
    /\ sheet \in Sheets
    /\ db_exists \in BOOLEAN
    /\ articles \in {{}, {prepare_row(RowLonger)}}
    /\ ~db_exists => articles = {}
    /\ schedules = [s \in Shops |-> AbsentTable]
    /\ import_out = NoImport
    /\ call = NoCall
    /\ refreshed = FALSE
    /\ importer = NotRunning
    /\ parse_arg = NoRecord
    /\ parse_ret = NotParsed
    /\ InitSide
    /\ InitChatIdle

NextImport == \E fetch_ok \in BOOLEAN : ImportRun(fetch_ok)

SpecImport == InitImport /\ [][NextImport]_vars

\* ------------------------------------------------------------------------
\* SpecChat: one registered or unregistered user writes to the bot
\* ------------------------------------------------------------------------
\* every message of the handler carries the exception
global_error_handler_detailed(user_id) ==
    <<ErrorMsg("critical_error", Admin1, TRUE),
      ErrorMsg("critical_error", Admin2, TRUE),
      ErrorMsg("critical_error", user_id, TRUE)>>

\* global_error_handler (64-143), the messages it sends for an exception that
\* left the handler of an update of user_id: the details to every id of
\* ADMINS (101-113), the fixed text of lines 119-121 to the user
global_error_handler(user_id) ==
    <<ErrorMsg("critical_error", Admin1, TRUE),
      ErrorMsg("critical_error", Admin2, TRUE),
      ErrorMsg("unexpected_error", user_id, FALSE)>>

\* activity_tracker_middleware (957-979) around the outcome e of a handler
\* run: last_activity is set after a first run that returned, not after the
\* run of line 979
activity_tracker(e, now, again) ==
    IF ~e.raised /\ ~again
    THEN [e EXCEPT !.data = update_data(e.data, [last_activity |-> now])]
    ELSE e

\* the update the dispatcher takes next: any message, or the one whose handler
\* raised and is run once more by line 979
Incoming(user_id, text) ==
    \/ retrying = None
    \/ retrying # None /\ retrying[1].user = user_id /\ retrying[1].text = text

\* the update is handled with one of the outcomes effs of its handler; an exception
\* of the second run is left to global_error_handler
Deliver(user_id, text, effs) ==
    IF service_mode_middleware(service_mode, user_id)
    THEN /\ out' = <<Msg("service_mode_notice")>>
         /\ UNCHANGED <<today, calc_arg, calc_ret, sheet, db_exists, articles,
                        schedules, import_out, call, refreshed, users_sheet, cache,
                        fsm, data, retrying, importer, logged, parse_vars,
                        side_vars>>
    ELSE
    \E e0 \in effs :
        LET e == activity_tracker(e0, today, retrying # None)
            \* the run of line 979 raised: the exception reaches the handler
            \* registered at line 304, which clears the FSM state (126-137)
            unhandled == e.raised /\ retrying # None
        IN /\ fsm' = [fsm EXCEPT ![user_id] = IF unhandled THEN NoState ELSE e.fsm]
           /\ data' = [data EXCEPT ![user_id] = IF unhandled THEN <<>> ELSE e.data]
           /\ cache' = e.cache
           /\ out' = IF retrying = None THEN e.out
                     ELSE IF unhandled THEN out \o global_error_handler(user_id)
                     ELSE out \o e.out
           /\ orders' = IF "orders" \in DOMAIN e THEN e.orders ELSE orders
           /\ service_mode' = IF "service_mode" \in DOMAIN e THEN e.service_mode
                              ELSE service_mode
           /\ tasks' = IF "tasks" \in DOMAIN e THEN e.tasks ELSE tasks
           \* wrote (history): the rows the run that raised had written
           /\ retrying' = IF e.raised /\ retrying = None
                          THEN <<[user |-> user_id, text |-> text,
                                  wrote |-> IF "orders" \in DOMAIN e
                                            THEN Len(e.orders) - Len(orders) ELSE 0]>>
                          ELSE None
           /\ IF e.lookup = None
              THEN UNCHANGED <<call, calc_arg, calc_ret, refreshed>>
              ELSE LET l == e.lookup[1]
                       same == /\ call.made /\ ~refreshed
                               /\ call.article = l.article /\ call.shop = l.shop
                               /\ call.day = today
                   IN /\ call' = [made |-> TRUE, article |-> l.article,
                                  shop |-> l.shop, day |-> today,
                                  repeat |-> IF same THEN 2 ELSE 1,
                                  product |-> l.product, result |-> l.run.result,
                                  during |-> importer.pc]
                      /\ calc_arg' = l.run.calc_arg
                      /\ calc_ret' = l.run.calc_ret
                      /\ refreshed' = FALSE
           /\ users_sheet' = IF "users_sheet" \in DOMAIN e THEN e.users_sheet
                             ELSE users_sheet
           /\ logged' = IF "logged" \in DOMAIN e THEN e.logged ELSE logged
           /\ UNCHANGED <<today, sheet, db_exists, articles, schedules, import_out,
                          importer, parse_vars, broadcast, refresher>>

InitChat ==
    /\ today = FirstDay
    /\ calc_arg = NoArg
    /\ calc_ret = NotCalled
    /\ sheet = ChatSheet
    /\ db_exists = TRUE
    /\ articles = Range(prepared_rows(sheet))
    /\ schedules = ChatSchedules
    /\ import_out = NoImport
    /\ call = NoCall
    /\ refreshed = FALSE
    /\ importer = NotRunning
    /\ parse_arg = NoRecord
    /\ parse_ret = NotParsed
    /\ InitSide
    /\ users_sheet \in UserSheets
    /\ \E api_ok \in BOOLEAN : /\ cache = preload_cache(<<>>, api_ok)
                              /\ logged = preload_log(api_ok)
    /\ fsm = [u \in ChatUsers |-> NoState]
    /\ data = [u \in ChatUsers |-> <<>>]
    /\ out = <<>>
    /\ retrying = None

HandleBack(u, text) ==
    /\ Incoming(u, text)
    /\ Route(fsm[u], text) = "handle_back"
    /\ Deliver(u, text, {handle_back(fsm[u], data[u], cache)})

CancelHandler(u, text) ==
    /\ Incoming(u, text)
    /\ Route(fsm[u], text) = "cancel_handler"
    /\ Deliver(u, text, {cancel_handler(fsm[u], data[u], cache, today)})

HandleClientOrder(u, text, api_ok) ==
    /\ Incoming(u, text)
    /\ Route(fsm[u], text) = "handle_client_order"
    /\ Deliver(u, text, {handle_client_order(u, fsm[u], data[u], cache, today, api_ok)})

ProcessArticleInput(u, text) ==
    /\ Incoming(u, text)
    /\ Route(fsm[u], text) = "process_article_input"
    /\ Deliver(u, text, {process_article_input(text, fsm[u], data[u], cache)})

ProcessShopSelection(u, text, api_ok) ==
    /\ Incoming(u, text)
    /\ Route(fsm[u], text) = "process_shop_selection"
    /\ Deliver(u, text, process_shop_selection(u, text, fsm[u], data[u], cache, today,
                                             api_ok))

ProcessCustomShop(u, text) ==
    /\ Incoming(u, text)
    /\ Route(fsm[u], text) = "process_custom_shop"
    /\ Deliver(u, text, process_custom_shop(text, fsm[u], data[u], cache, today))

ProcessQuantity(u, text) ==
    /\ Incoming(u, text)
    /\ Route(fsm[u], text) = "process_quantity"
    /\ Deliver(u, text, {process_quantity(text, fsm[u], data[u], cache)})

ProcessOrderReason(u, text) ==
    /\ Incoming(u, text)
    /\ Route(fsm[u], text) = "process_order_reason"
    /\ Deliver(u, text, {process_order_reason(text, fsm[u], data[u], cache)})

CorrectQuantity(u, text) ==
    /\ Incoming(u, text)
    /\ Route(fsm[u], text) = "correct_quantity"
    /\ Deliver(u, text, {correct_quantity(fsm[u], data[u], cache)})

FinalConfirmation(u, text, sheet_ok, reply_ok, api_ok) ==
    /\ Incoming(u, text)
    /\ Route(fsm[u], text) = "final_confirmation"
    /\ Deliver(u, text, {final_confirmation(u, fsm[u], data[u], cache, orders, today,
                                            sheet_ok, reply_ok, api_ok)})

HandleInfoRequest(u, text, api_ok) ==
    /\ Incoming(u, text)
    /\ Route(fsm[u], text) = "handle_info_request"
    /\ Deliver(u, text, {handle_info_request(u, fsm[u], data[u], cache, today, api_ok)})

ProcessInfoRequest(u, text, api_ok) ==
    /\ Incoming(u, text)
    /\ Route(fsm[u], text) = "process_info_request"
    /\ Deliver(u, text, process_info_request(u, text, fsm[u], data[u], cache, today,
                                           api_ok))

NextChat ==
    \E u \in ChatUsers, text \in Texts :
        \/ HandleBack(u, text)
        \/ CancelHandler(u, text)
        \/ ProcessArticleInput(u, text)
        \/ ProcessCustomShop(u, text)
        \/ ProcessQuantity(u, text)
        \/ ProcessOrderReason(u, text)
        \/ CorrectQuantity(u, text)
        \/ \E api_ok \in BOOLEAN :
               \/ HandleClientOrder(u, text, api_ok)
               \/ ProcessShopSelection(u, text, api_ok)
               \/ HandleInfoRequest(u, text, api_ok)
               \/ ProcessInfoRequest(u, text, api_ok)

SpecChat == InitChat /\ [][NextChat]_vars

\* ------------------------------------------------------------------------
\* SpecRefresh: an admin and a newcomer write to the bot while the cache is
\* refreshed on the admin's button and by the 12-hour task
\* ------------------------------------------------------------------------
RefreshUsers == {User1, Admin1}

\* startup (2732-2745): preload_cache ran once
InitRefresh ==
    /\ today = FirstDay
    /\ calc_arg = NoArg
    /\ calc_ret = NotCalled
    /\ sheet = ChatSheet
    /\ db_exists = TRUE
    /\ articles = Range(prepared_rows(sheet))
    /\ schedules = ChatSchedules
    /\ import_out = NoImport
    /\ call = NoCall
    /\ refreshed = FALSE
    /\ importer = NotRunning
    /\ parse_arg = NoRecord
    /\ parse_ret = NotParsed
    /\ InitSide
    /\ users_sheet \in {<<>>, <<UserRow(Shop6)>>}
    /\ \E api_ok \in BOOLEAN : /\ cache = preload_cache(<<>>, api_ok)
                              /\ logged = preload_log(api_ok)
    /\ fsm = [u \in RefreshUsers |-> NoState]
    /\ data = [u \in RefreshUsers |-> <<>>]
    /\ out = <<>>
    /\ retrying = None

StartHandler(u, text, api_ok) ==
    /\ Incoming(u, text)
    /\ Route(fsm[u], text) = "start_handler"
    /\ Deliver(u, text, {start_handler(u, fsm[u], data[u], cache, today, api_ok)})

ProcessName(u, text) ==
    /\ Incoming(u, text)
    /\ Route(fsm[u], text) = "process_name"
    /\ Deliver(u, text, {process_name(text, data[u], cache, today)})

ProcessSurname(u, text) ==
    /\ Incoming(u, text)
    /\ Route(fsm[u], text) = "process_surname"
    /\ Deliver(u, text, {process_surname(text, data[u], cache, today)})

ProcessPosition(u, text) ==
    /\ Incoming(u, text)
    /\ Route(fsm[u], text) = "process_position"
    /\ Deliver(u, text, {process_position(text, data[u], cache, today)})

ProcessShop(u, text, append_ok, api_ok) ==
    /\ Incoming(u, text)
    /\ Route(fsm[u], text) = "process_shop"
    /\ Deliver(u, text, {process_shop(u, text, fsm[u], data[u], cache, users_sheet,
                                      today, append_ok, api_ok)})

HandleAdminStats(u, text, api_ok) ==
    /\ Incoming(u, text)
    /\ Route(fsm[u], text) = "handle_admin_stats"
    /\ Deliver(u, text, {handle_admin_stats(u, fsm[u], data[u], cache, api_ok)})

HandleCacheRefresh(u, text, api_ok) ==
    /\ Incoming(u, text)
    /\ Route(fsm[u], text) = "handle_cache_refresh"
    /\ Deliver(u, text, {handle_cache_refresh(u, fsm[u], data[u], cache, api_ok)})

EnableServiceMode(u, text) ==
    /\ Incoming(u, text)
    /\ Route(fsm[u], text) = "enable_service_mode"
    /\ Deliver(u, text, {enable_service_mode(u, fsm[u], data[u], cache)})

DisableServiceMode(u, text) ==
    /\ Incoming(u, text)
    /\ Route(fsm[u], text) = "disable_service_mode"
    /\ Deliver(u, text, {disable_service_mode(u, fsm[u], data[u], cache)})

AddTaskText(u, text) ==
    /\ Incoming(u, text)
    /\ Route(fsm[u], text) = "add_task_text"
    /\ Deliver(u, text, {add_task_text(fsm[u], data[u], cache)})

AddTaskLink(u, text) ==
    /\ Incoming(u, text)
    /\ Route(fsm[u], text) = "add_task_link"
    /\ Deliver(u, text, {add_task_link(text, fsm[u], data[u], cache)})

AddTaskDeadline(u, text) ==
    /\ Incoming(u, text)
    /\ Route(fsm[u], text) = "add_task_deadline"
    /\ Deliver(u, text, {add_task_deadline(text, fsm[u], data[u], cache)})

SaveTaskHandler(u, text, task_id, api_ok) ==
    /\ Incoming(u, text)
    /\ Route(fsm[u], text) = "save_task_handler"
    /\ Deliver(u, text, {save_task_handler(u, text, fsm[u], data[u], cache, tasks,
                                           task_id, api_ok)})

\* what bot.send_message does for a recipient: it succeeds, or raises
\* TelegramForbiddenError, TelegramBadRequest, TimeoutError or another
\* exception (TelegramRetryAfter, a network error)
SendOutcomes == {"ok", "forbidden", "bad_request", "timeout", "other"}

\* the loop of send_broadcast (1693-1722) from recipient i on; acc: the
\* recipients a delivery was tried to and the two counters
RECURSIVE broadcast_from(_, _, _, _)
broadcast_from(user_ids, outcome, i, acc) ==
    IF i > Len(user_ids) THEN [acc EXCEPT !.raised = FALSE]
    ELSE IF strip(user_ids[i]) = <<>>
    THEN broadcast_from(user_ids, outcome, i + 1, acc)
    \* int(user_id) raises ValueError: counted, and raised again by line 1722
    ELSE IF int_raises(strip(user_ids[i]))
    THEN [acc EXCEPT !.failed = @ + 1, !.raised = TRUE]
    ELSE LET tried == [acc EXCEPT !.attempted = Append(@, user_ids[i])]
         IN IF outcome[i] = "ok"
            THEN broadcast_from(user_ids, outcome, i + 1,
                                [tried EXCEPT !.success = @ + 1])
            ELSE IF outcome[i] \in {"forbidden", "bad_request", "timeout"}
            THEN broadcast_from(user_ids, outcome, i + 1,
                                [tried EXCEPT !.failed = @ + 1])
            ELSE [tried EXCEPT !.failed = @ + 1, !.raised = TRUE]

\* send_broadcast (1687-1738) of a text; report_ok: the report reaches
\* ADMINS[0].  An exception of the loop ends the task before the report
send_broadcast(user_ids, outcome, report_ok) ==
    LET done == broadcast_from(user_ids, outcome, 1,
                               [attempted |-> <<>>, success |-> 0, failed |-> 0,
                                raised |-> FALSE])
    IN [called |-> TRUE, user_ids |-> user_ids, outcome |-> outcome,
        report_ok |-> report_ok, attempted |-> done.attempted,
        raised |-> done.raised,
        report |-> IF done.raised \/ ~report_ok THEN None
                   ELSE <<[to |-> Admin1, total |-> Len(user_ids),
                           success |-> done.success, failed |-> done.failed]>>]

\* the task of line 1683 runs
SendBroadcast ==
    /\ ~broadcast.called
    /\ broadcast' = send_broadcast(broadcast.user_ids, broadcast.outcome,
                                   broadcast.report_ok)
    /\ UNCHANGED <<today, calc_arg, calc_ret, sheet, db_exists, articles, schedules,
                   import_out, call, refreshed, chat_vars, importer, parse_vars,
                   orders, service_mode, tasks, refresher>>

\* the callback "task_done:<task_id>" of user u
MarkTaskDone(u, task_id, sheet_ok) ==
    /\ Incoming(u, task_id)
    /\ Deliver(u, task_id, {mark_task_done(u, task_id, fsm[u], data[u], cache, tasks,
                                           sheet_ok)})

\* a loop that an exception of the reload leaves
after_refresh_unguarded(api_ok) == IF api_ok THEN "sleep" ELSE "exit"

\* where scheduled_cache_update is after the try statement of lines
\* 2726-2730: preload_cache catches its exceptions (796-797) and so does the
\* loop, which goes back to its sleep
after_refresh(api_ok) == "sleep"

\* asyncio.sleep(3600 * 12) of line 2725 returns
SleepEnds ==
    /\ refresher.pc = "sleep"
    /\ refresher' = [refresher EXCEPT !.pc = "preload"]
    /\ UNCHANGED <<today, calc_arg, calc_ret, sheet, db_exists, articles, schedules,
                   import_out, call, refreshed, chat_vars, importer, parse_vars,
                   orders, service_mode, tasks, broadcast>>

\* lines 2726-2730 with the worksheets as they answer now
ScheduledReload ==
    /\ refresher.pc = "preload"
    /\ cache' = preload_cache(cache, refresher.store_ok)
    /\ logged' = preload_log(refresher.store_ok) \o <<"scheduled update done">>
    /\ refresher' = [refresher EXCEPT !.pc = after_refresh(refresher.store_ok),
                                      !.failed = @ \/ ~refresher.store_ok]
    /\ UNCHANGED <<today, calc_arg, calc_ret, sheet, db_exists, articles, schedules,
                   import_out, call, refreshed, users_sheet, fsm, data, out,
                   retrying, importer, parse_vars, orders, service_mode, tasks,
                   broadcast>>

\* the API of the worksheets stops answering, or answers again
StoreChanges ==
    /\ refresher' = [refresher EXCEPT !.store_ok = ~@]
    /\ UNCHANGED <<today, calc_arg, calc_ret, sheet, db_exists, articles, schedules,
                   import_out, call, refreshed, chat_vars, importer, parse_vars,
                   orders, service_mode, tasks, broadcast>>

\* (now - last_activity).total_seconds() / 60 of line 1004, the clock being
\* read in whole days
inactivity(now, last_activity) == (now - last_activity) * 1440

\* lines 997-1006: the record has a last_activity and it is more than 30
\* minutes old
is_inactive(d, now) ==
    "last_activity" \in DOMAIN d /\ inactivity(now, d.last_activity) > 30

\* the message of lines 1013-1017 to user_id
SessionEnded(user_id) == [tpl |-> "session_ended", warning |-> FALSE, to |-> user_id]

\* one pass of state_cleanup_task (983-1039) over the records of the storage,
\* in the order the storage holds them
StateCleanupTask ==
    LET cleared == {u \in DOMAIN fsm : is_inactive(data[u], today)}
    IN /\ fsm' = [u \in DOMAIN fsm |-> IF u \in cleared THEN NoState ELSE fsm[u]]
       /\ data' = [u \in DOMAIN data |-> IF u \in cleared THEN <<>> ELSE data[u]]
       /\ \E order \in [1..Cardinality(cleared) -> cleared] :
              /\ \A i, j \in DOMAIN order : order[i] = order[j] => i = j
              /\ out' = [i \in DOMAIN order |-> SessionEnded(order[i])]
       /\ UNCHANGED <<today, calc_arg, calc_ret, sheet, db_exists, articles,
                      schedules, import_out, call, refreshed, users_sheet, cache,
                      retrying, importer, logged, parse_vars, side_vars>>

\* one round of scheduled_cache_update (2722-2730): its "done" record is
\* logged whatever preload_cache met
ScheduledCacheUpdate(api_ok) ==
    /\ cache' = preload_cache(cache, api_ok)
    /\ logged' = preload_log(api_ok) \o <<"scheduled update done">>
    /\ UNCHANGED <<today, calc_arg, calc_ret, sheet, db_exists, articles, schedules,
                   import_out, call, refreshed, users_sheet, fsm, data, out,
                   retrying, importer, parse_vars, side_vars>>

NextRefresh ==
    \/ \E api_ok \in BOOLEAN : ScheduledCacheUpdate(api_ok)
    \/ \E u \in RefreshUsers, api_ok \in BOOLEAN :
           \/ StartHandler(u, CmdStart, api_ok)
           \/ ProcessName(u, Ltr(14))
           \/ ProcessSurname(u, Ltr(14))
           \/ ProcessPosition(u, Ltr(16))
           \/ \E text \in {Shop6, Ltr(14)}, append_ok \in BOOLEAN :
                  /\ Len(users_sheet) < MaxUserRows
                  /\ ProcessShop(u, text, append_ok, api_ok)
           \/ HandleInfoRequest(u, BtnInfo, api_ok)
           \/ HandleBack(u, BtnBack)
           \/ HandleCacheRefresh(u, BtnRefreshCache, api_ok)

SpecRefresh == InitRefresh /\ [][NextRefresh]_vars

\* ------------------------------------------------------------------------
\* SpecDirectory: the worksheet of the users is edited by hand (a shop is
\* changed, a row is removed or added) while a user writes to the bot and the
\* 12-hour task reloads the users
\* ------------------------------------------------------------------------
\* startup (2732-2745): preload_cache ran once on the worksheet as it was
InitDirectory ==
    /\ today = FirstDay
    /\ calc_arg = NoArg
    /\ calc_ret = NotCalled
    /\ sheet = ChatSheet
    /\ db_exists = TRUE
    /\ articles = Range(prepared_rows(sheet))
    /\ schedules = ChatSchedules
    /\ import_out = NoImport
    /\ call = NoCall
    /\ refreshed = FALSE
    /\ importer = NotRunning
    /\ parse_arg = NoRecord
    /\ parse_ret = NotParsed
    /\ InitSide
    /\ users_sheet \in UserSheets
    /\ \E api_ok \in BOOLEAN : /\ cache = preload_cache(<<>>, api_ok)
                              /\ logged = preload_log(api_ok)
    /\ fsm = [u \in ChatUsers |-> NoState]
    /\ data = [u \in ChatUsers |-> <<>>]
    /\ out = <<>>
    /\ retrying = None

\* somebody edits the worksheet "Пользователи" (main.py 307-311 opens it; the
\* program is not told of the edit)
UsersSheetEdited(rows) ==
    /\ rows # users_sheet
    /\ users_sheet' = rows
    /\ UNCHANGED <<today, calc_arg, calc_ret, sheet, db_exists, articles, schedules,
                   import_out, call, refreshed, cache, fsm, data, out, retrying,
                   importer, logged, parse_vars, side_vars>>

NextDirectory ==
    \/ \E rows \in UserSheets : UsersSheetEdited(rows)
    \/ \E api_ok \in BOOLEAN : ScheduledCacheUpdate(api_ok)
    \/ \E u \in ChatUsers, api_ok \in BOOLEAN :
           \/ StartHandler(u, CmdStart, api_ok)
           \/ HandleInfoRequest(u, BtnInfo, api_ok)
           \/ HandleBack(u, BtnBack)

SpecDirectory == InitDirectory /\ [][NextDirectory]_vars

\* ------------------------------------------------------------------------
\* SpecCancel: a newcomer or a registered user writes "❌ Отмена", "/start",
\* the menu buttons, "6" and "1234" in the states of the registration, of
\* the order and of the information request
\* ------------------------------------------------------------------------
CancelTexts == {CmdStart, BtnCancel, BtnOrder, BtnInfo, Shop6, A1234}

InitCancel ==
    /\ today = FirstDay
    /\ calc_arg = NoArg
    /\ calc_ret = NotCalled
    /\ sheet = ChatSheet
    /\ db_exists = TRUE
    /\ articles = Range(prepared_rows(sheet))
    /\ schedules = ChatSchedules
    /\ import_out = NoImport
    /\ call = NoCall
    /\ refreshed = FALSE
    /\ importer = NotRunning
    /\ parse_arg = NoRecord
    /\ parse_ret = NotParsed
    /\ InitSide
    /\ users_sheet \in {<<>>, <<UserRow(Shop5)>>}
    /\ cache = preload_cache(<<>>, TRUE)
    /\ logged = preload_log(TRUE)
    /\ fsm = [u \in ChatUsers |-> NoState]
    /\ data = [u \in ChatUsers |-> <<>>]
    /\ out = <<>>
    /\ retrying = None

\* the message text of user u is dispatched to its handler
Dispatch(u, text) ==
    \/ StartHandler(u, text, TRUE)
    \/ ProcessName(u, text)
    \/ ProcessSurname(u, text)
    \/ ProcessPosition(u, text)
    \/ /\ Len(users_sheet) < MaxUserRows
       /\ ProcessShop(u, text, TRUE, TRUE)
    \/ CancelHandler(u, text)
    \/ HandleClientOrder(u, text, TRUE)
    \/ ProcessArticleInput(u, text)
    \/ HandleInfoRequest(u, text, TRUE)
    \/ ProcessInfoRequest(u, text, TRUE)

NextCancel == \E u \in ChatUsers, text \in CancelTexts : Dispatch(u, text)

SpecCancel == InitCancel /\ [][NextCancel]_vars

\* ------------------------------------------------------------------------
\* SpecService: an admin switches the service mode on and off while the admin
\* and a newcomer write to the bot
\* ------------------------------------------------------------------------
ServiceUsers == {User1, Admin1}
ServiceTexts == {CmdStart, Shop6, BtnEnableService, BtnDisableService}

InitService ==
    /\ today = FirstDay
    /\ calc_arg = NoArg
    /\ calc_ret = NotCalled
    /\ sheet = ChatSheet
    /\ db_exists = TRUE
    /\ articles = Range(prepared_rows(sheet))
    /\ schedules = ChatSchedules
    /\ import_out = NoImport
    /\ call = NoCall
    /\ refreshed = FALSE
    /\ importer = NotRunning
    /\ parse_arg = NoRecord
    /\ parse_ret = NotParsed
    /\ InitSide
    /\ users_sheet = <<>>
    /\ cache = preload_cache(<<>>, TRUE)
    /\ logged = preload_log(TRUE)
    /\ fsm = [u \in ServiceUsers |-> NoState]
    /\ data = [u \in ServiceUsers |-> <<>>]
    /\ out = <<>>
    /\ retrying = None

\* the message text of user u goes through the middlewares to its handler
ServiceDispatch(u, text) ==
    \/ StartHandler(u, text, TRUE)
    \/ ProcessName(u, text)
    \/ ProcessSurname(u, text)
    \/ EnableServiceMode(u, text)
    \/ DisableServiceMode(u, text)

NextService == \E u \in ServiceUsers, text \in ServiceTexts : ServiceDispatch(u, text)

SpecService == InitService /\ [][NextService]_vars

\* ------------------------------------------------------------------------
\* SpecAdmin: an admin and another registered user press the buttons of the
\* admin panel and go through the wizard of a new task
\* ------------------------------------------------------------------------
AdminUsers == {User1, Admin1}
AdminTexts == {BtnAddTask, CmdSkip, Shop6, BtnRefreshCache, BtnEnableService}

InitAdmin ==
    /\ today = FirstDay
    /\ calc_arg = NoArg
    /\ calc_ret = NotCalled
    /\ sheet = ChatSheet
    /\ db_exists = TRUE
    /\ articles = Range(prepared_rows(sheet))
    /\ schedules = ChatSchedules
    /\ import_out = NoImport
    /\ call = NoCall
    /\ refreshed = FALSE
    /\ importer = NotRunning
    /\ parse_arg = NoRecord
    /\ parse_ret = NotParsed
    /\ InitSide
    /\ users_sheet = <<UserRow(Shop5)>>
    /\ cache = preload_cache(<<>>, TRUE)
    /\ logged = preload_log(TRUE)
    /\ fsm = [u \in AdminUsers |-> NoState]
    /\ data = [u \in AdminUsers |-> <<>>]
    /\ out = <<>>
    /\ retrying = None

\* the message text of user u goes through the middlewares to its handler
AdminDispatch(u, text) ==
    \/ HandleCacheRefresh(u, text, TRUE)
    \/ EnableServiceMode(u, text)
    \/ AddTaskText(u, text)
    \/ AddTaskLink(u, text)
    \/ AddTaskDeadline(u, text)
    \/ /\ Len(tasks) < MaxTasks
       /\ SaveTaskHandler(u, text, Dg(1), TRUE)

NextAdmin == \E u \in AdminUsers, text \in AdminTexts : AdminDispatch(u, text)

SpecAdmin == InitAdmin /\ [][NextAdmin]_vars

\* ------------------------------------------------------------------------
\* SpecCleanup: two newcomers start the registration and leave it while the
\* days pass and state_cleanup_task looks at the sessions
\* ------------------------------------------------------------------------
CleanupUsers == {User1, Admin1}
CleanupTexts == {CmdStart, BtnBack, Shop6}

InitCleanup ==
    /\ today = FirstDay
    /\ calc_arg = NoArg
    /\ calc_ret = NotCalled
    /\ sheet = ChatSheet
    /\ db_exists = TRUE
    /\ articles = Range(prepared_rows(sheet))
    /\ schedules = ChatSchedules
    /\ import_out = NoImport
    /\ call = NoCall
    /\ refreshed = FALSE
    /\ importer = NotRunning
    /\ parse_arg = NoRecord
    /\ parse_ret = NotParsed
    /\ InitSide
    /\ users_sheet = <<>>
    /\ cache = preload_cache(<<>>, TRUE)
    /\ logged = preload_log(TRUE)
    /\ fsm = [u \in CleanupUsers |-> NoState]
    /\ data = [u \in CleanupUsers |-> <<>>]
    /\ out = <<>>
    /\ retrying = None

NextCleanup ==
    \/ Tick
    \/ StateCleanupTask
    \/ \E u \in CleanupUsers, text \in CleanupTexts :
           \/ StartHandler(u, text, TRUE)
           \/ ProcessName(u, text)
           \/ ProcessSurname(u, text)
           \/ HandleBack(u, text)

SpecCleanup == InitCleanup /\ [][NextCleanup]_vars

\* ------------------------------------------------------------------------
\* SpecTasks: two users press "done" under a task whose row holds the
\* statuses in one of the formats
\* ------------------------------------------------------------------------
TaskUsers == {User1, Admin1}
TaskIds == {Dg(1), Dg(2)}

\* the lists of ids a row can hold
IdLists == {<<>>, <<User1>>, <<Admin1>>, <<User1, Admin1>>}

StatusCells ==
    {BlankCell, NoJsonCell, JsonListCell, JsonDictCell(<<>>)}
    \cup {JsonDictCell([user_ids |-> ids]) : ids \in IdLists}
    \cup {JsonDictCell([completed_by |-> ids]) : ids \in IdLists}
    \cup {JsonDictCell([user_ids |-> old, completed_by |-> ids]) :
              old \in IdLists, ids \in IdLists}

InitTasks ==
    /\ today = FirstDay
    /\ calc_arg = NoArg
    /\ calc_ret = NotCalled
    /\ sheet = ChatSheet
    /\ db_exists = TRUE
    /\ articles = Range(prepared_rows(sheet))
    /\ schedules = ChatSchedules
    /\ import_out = NoImport
    /\ call = NoCall
    /\ refreshed = FALSE
    /\ importer = NotRunning
    /\ parse_arg = NoRecord
    /\ parse_ret = NotParsed
    /\ orders = <<>>
    /\ service_mode = FALSE
    /\ broadcast = NoBroadcast
    /\ refresher = Sleeping
    /\ \E cell \in StatusCells :
           tasks = <<[id |-> Dg(1), text |-> Ltr(1), link |-> None,
                      deadline |-> None, creator |-> Admin1, statuses |-> cell]>>
    /\ users_sheet = <<UserRow(Shop5)>>
    /\ cache = preload_cache(<<>>, TRUE)
    /\ logged = preload_log(TRUE)
    /\ fsm = [u \in TaskUsers |-> NoState]
    /\ data = [u \in TaskUsers |-> <<>>]
    /\ out = <<>>
    /\ retrying = None

NextTasks ==
    \E u \in TaskUsers, task_id \in TaskIds, sheet_ok \in BOOLEAN :
        MarkTaskDone(u, task_id, sheet_ok)

SpecTasks == InitTasks /\ [][NextTasks]_vars

\* ------------------------------------------------------------------------
\* SpecBroadcast: send_broadcast on a list of recipients
\* ------------------------------------------------------------------------
\* the ids of a list: "9", " ", "a" and the id of an admin
RecipientIds == {User1, <<SP>>, Ltr(1), Admin1}

RecipientLists == UNION {[1..n -> RecipientIds] : n \in 0..MaxRecipients}

InitBroadcast ==
    /\ today = FirstDay
    /\ calc_arg = NoArg
    /\ calc_ret = NotCalled
    /\ sheet = <<>>
    /\ db_exists = FALSE
    /\ articles = {}
    /\ schedules = [s \in Shops |-> AbsentTable]
    /\ import_out = NoImport
    /\ call = NoCall
    /\ refreshed = FALSE
    /\ importer = NotRunning
    /\ parse_arg = NoRecord
    /\ parse_ret = NotParsed
    /\ orders = <<>>
    /\ service_mode = FALSE
    /\ tasks = <<>>
    /\ refresher = Sleeping
    /\ \E user_ids \in RecipientLists, report_ok \in BOOLEAN :
           \E outcome \in [1..Len(user_ids) -> SendOutcomes] :
               broadcast = [NoBroadcast EXCEPT !.user_ids = user_ids,
                                               !.outcome = outcome,
                                               !.report_ok = report_ok]
    /\ InitChatIdle

NextBroadcast == SendBroadcast

SpecBroadcast == InitBroadcast /\ [][NextBroadcast]_vars

\* ------------------------------------------------------------------------
\* SpecSchedule: the loop of scheduled_cache_update step by step, while the
\* worksheet of the users is edited, its API fails and answers again, and a
\* user sends /start.  LiveSchedule adds that the sleep of the loop ends and
\* that the reload after it runs (the event loop serves its timers and
\* tasks).
\* ------------------------------------------------------------------------
InitSchedule ==
    /\ today = FirstDay
    /\ calc_arg = NoArg
    /\ calc_ret = NotCalled
    /\ sheet = ChatSheet
    /\ db_exists = TRUE
    /\ articles = Range(prepared_rows(sheet))
    /\ schedules = ChatSchedules
    /\ import_out = NoImport
    /\ call = NoCall
    /\ refreshed = FALSE
    /\ importer = NotRunning
    /\ parse_arg = NoRecord
    /\ parse_ret = NotParsed
    /\ InitSide
    /\ users_sheet \in {<<>>, <<UserRow(Shop5)>>}
    /\ cache = preload_cache(<<>>, TRUE)
    /\ logged = preload_log(TRUE)
    /\ fsm = [u \in ChatUsers |-> NoState]
    /\ data = [u \in ChatUsers |-> <<>>]
    /\ out = <<>>
    /\ retrying = None

NextSchedule ==
    \/ SleepEnds
    \/ ScheduledReload
    \/ StoreChanges
    \/ \E rows \in {<<>>, <<UserRow(Shop5)>>, <<UserRow(Shop6)>>} :
           UsersSheetEdited(rows)
    \/ \E u \in ChatUsers : StartHandler(u, CmdStart, refresher.store_ok)

SpecSchedule == InitSchedule /\ [][NextSchedule]_vars

LiveSchedule == SpecSchedule /\ WF_vars(SleepEnds) /\ WF_vars(ScheduledReload)

\* ------------------------------------------------------------------------
\* SpecOrder: a registered user goes through the order wizard, the worksheet
\* of the orders and the replies failing now and then
\* ------------------------------------------------------------------------
\* an article no row of the worksheet has
UnknownArticle == Dg(2) \o Dg(2) \o Dg(2) \o Dg(2)

\* the buttons of the wizard and the articles "1234" and "2222", typed as the
\* quantity and as the reason too
OrderTexts ==
    {BtnOrder, A1234, UnknownArticle, BtnMyShop, BtnConfirm, BtnFixQuantity,
     BtnCancel}

InitOrder ==
    /\ today = FirstDay
    /\ calc_arg = NoArg
    /\ calc_ret = NotCalled
    /\ sheet = ChatSheet
    /\ db_exists = TRUE
    /\ articles = Range(prepared_rows(sheet))
    /\ schedules = ChatSchedules
    /\ import_out = NoImport
    /\ call = NoCall
    /\ refreshed = FALSE
    /\ importer = NotRunning
    /\ parse_arg = NoRecord
    /\ parse_ret = NotParsed
    /\ InitSide
    /\ users_sheet \in {<<>>, <<UserRow(Shop5)>>}
    /\ cache = preload_cache(<<>>, TRUE)
    /\ logged = preload_log(TRUE)
    /\ fsm = [u \in ChatUsers |-> NoState]
    /\ data = [u \in ChatUsers |-> <<>>]
    /\ out = <<>>
    /\ retrying = None

NextOrder ==
    \E u \in ChatUsers, text \in OrderTexts :
        \/ CancelHandler(u, text)
        \/ HandleClientOrder(u, text, TRUE)
        \/ ProcessArticleInput(u, text)
        \/ ProcessShopSelection(u, text, TRUE)
        \/ ProcessQuantity(u, text)
        \/ ProcessOrderReason(u, text)
        \/ CorrectQuantity(u, text)
        \/ \E sheet_ok \in BOOLEAN, reply_ok \in BOOLEAN :
               /\ retrying # None \/ Len(orders) < MaxOrders
               /\ FinalConfirmation(u, text, sheet_ok, reply_ok, TRUE)

SpecOrder == InitOrder /\ [][NextOrder]_vars

\* ------------------------------------------------------------------------
\* SpecCache: the cache near its capacity.  The worksheet holds a row for
\* each of CacheMaxsize + 1 users, and the first of them have had their
\* profile cached since startup, the user of row 1 longest ago.
\* ------------------------------------------------------------------------
\* str(message.from_user.id)
RECURSIVE str_id(_)
str_id(n) == IF n < 10 THEN Dg(n) ELSE str_id(n \div 10) \o Dg(n % 10)

RegisteredRow(n) ==
    [id |-> str_id(n), shop |-> Shop6, name |-> Ltr(14), surname |-> <<>>,
     position |-> Ltr(16)]

RegisteredRows == [n \in 1..(CacheMaxsize + 1) |-> RegisteredRow(n)]

\* the cache after startup, the first /start of the users of rows 1..n and a
\* scheduled refresh, which leaves the order of use as the order of insertion
cache_after_starts(n) ==
    <<[key |-> UsersDataKey, value |-> [records |-> RegisteredRows], born |-> 1]>>
    \o [i \in 1..n |-> [key |-> UserKey(str_id(i)),
                        value |-> profile_of(RegisteredRows[i]), born |-> i + 1]]

\* who writes: the users of the first and of the last row, and an admin who
\* is not registered
CacheUsers == {str_id(1), str_id(CacheMaxsize + 1), Admin1}

InitCache ==
    /\ today = FirstDay
    /\ calc_arg = NoArg
    /\ calc_ret = NotCalled
    /\ sheet = ChatSheet
    /\ db_exists = TRUE
    /\ articles = Range(prepared_rows(sheet))
    /\ schedules = ChatSchedules
    /\ import_out = NoImport
    /\ call = NoCall
    /\ refreshed = FALSE
    /\ importer = NotRunning
    /\ parse_arg = NoRecord
    /\ parse_ret = NotParsed
    /\ InitSide
    /\ users_sheet = RegisteredRows
    /\ cache = cache_after_starts(CacheMaxsize - 2)
    /\ logged = preload_log(TRUE)
    /\ fsm = [u \in CacheUsers |-> NoState]
    /\ data = [u \in CacheUsers |-> <<>>]
    /\ out = <<>>
    /\ retrying = None

NextCache ==
    \/ ScheduledCacheUpdate(TRUE)
    \/ \E u \in CacheUsers :
           \/ StartHandler(u, CmdStart, TRUE)
           \/ ProcessName(u, Ltr(14))
           \/ ProcessSurname(u, Ltr(14))
           \/ ProcessPosition(u, Ltr(16))
           \/ /\ Len(users_sheet) < CacheMaxsize + 1 + MaxUserRows
              /\ ProcessShop(u, Shop6, TRUE, TRUE)
           \/ HandleCacheRefresh(u, BtnRefreshCache, TRUE)
           \/ HandleAdminStats(u, BtnStats, TRUE)

SpecCache == InitCache /\ [][NextCache]_vars

\* ------------------------------------------------------------------------
\* SpecRebuild: the import script statement by statement, next to the bot's
\* product lookups (two processes on one database file)
\* ------------------------------------------------------------------------
InitRebuild ==
    /\ today = FirstDay
    /\ calc_arg = NoArg
    /\ calc_ret = NotCalled
    /\ sheet \in RebuildSheets
    /\ db_exists \in BOOLEAN
    /\ articles \in {{}, {prepare_row(RowLonger), prepare_row(RowNoSupplier)}}
    /\ ~db_exists => articles = {}
    /\ schedules = [s \in Shops |-> AbsentTable]
    /\ import_out = NoImport
    /\ call = NoCall
    /\ refreshed = FALSE
    /\ importer = NotRunning
    /\ parse_arg = NoRecord
    /\ parse_ret = NotParsed
    /\ InitSide
    /\ InitChatIdle

\* conn = prepare_db() (lines 15-32, 92)
PrepareDb ==
    /\ importer.pc = "exit"
    /\ db_exists' = TRUE
    /\ importer' = [pc |-> "get_sheet_data", records |-> <<>>, txn |-> articles,
                    before |-> articles]
    /\ UNCHANGED <<today, calc_arg, calc_ret, sheet, articles, schedules,
                   import_out, call, refreshed, chat_vars, parse_vars, side_vars>>

\* data = get_sheet_data() (lines 35-57, 93); an exception ends the script
GetSheetData(fetch_ok) ==
    /\ importer.pc = "get_sheet_data"
    /\ IF fetch_ok
       THEN /\ importer' = [importer EXCEPT !.pc = "delete", !.records = sheet]
            /\ UNCHANGED import_out
       ELSE /\ importer' = NotRunning
            /\ import_out' = [ran |-> TRUE, ok |-> FALSE, imported |-> 0,
                              error |-> "fetch"]
    /\ UNCHANGED <<today, calc_arg, calc_ret, sheet, db_exists, articles,
                   schedules, call, refreshed, chat_vars, parse_vars, side_vars>>

\* conn.execute("DELETE FROM articles") (line 61)
DeleteRows ==
    /\ importer.pc = "delete"
    /\ importer' = [importer EXCEPT !.pc = "insert", !.txn = {}]
    /\ articles' = rows_after_delete(articles)
    /\ UNCHANGED <<today, calc_arg, calc_ret, sheet, db_exists, schedules,
                   import_out, call, refreshed, chat_vars, parse_vars, side_vars>>

\* the loop of lines 64-78 and executemany (80-85); KeyError and
\* IntegrityError end the script, whose transaction is rolled back
InsertRows ==
    /\ importer.pc = "insert"
    /\ LET prepared == prepared_rows(importer.records)
           error == import_error(TRUE, importer.records, prepared)
       IN IF error = ""
          THEN /\ importer' = [importer EXCEPT !.pc = "commit",
                                               !.txn = Range(prepared)]
               /\ UNCHANGED import_out
          ELSE /\ importer' = NotRunning
               /\ import_out' = [ran |-> TRUE, ok |-> FALSE, imported |-> 0,
                                 error |-> error]
    /\ UNCHANGED <<today, calc_arg, calc_ret, sheet, db_exists, articles,
                   schedules, call, refreshed, chat_vars, parse_vars, side_vars>>

\* conn.commit() (line 86) and the end of the script
Commit ==
    /\ importer.pc = "commit"
    /\ articles' = importer.txn
    /\ import_out' = [ran |-> TRUE, ok |-> TRUE,
                      imported |-> Len(importer.records), error |-> ""]
    /\ importer' = NotRunning
    /\ refreshed' = TRUE
    /\ UNCHANGED <<today, calc_arg, calc_ret, sheet, db_exists, schedules, call,
                   chat_vars, parse_vars, side_vars>>

NextRebuild ==
    \/ PrepareDb
    \/ \E fetch_ok \in BOOLEAN : GetSheetData(fetch_ok)
    \/ DeleteRows
    \/ InsertRows
    \/ Commit
    \/ \E article \in AskedArticles, shop \in AskedShops : GetProductInfo(article, shop)

SpecRebuild == InitRebuild /\ [][NextRebuild]_vars

\* ------------------------------------------------------------------------
\* Claims about the calculator (checked under SpecCalc)
\* ------------------------------------------------------------------------
\* the ordinals a formatted date can stand for, searched around the window
Horizon == (FirstDay - 7)..(FirstDay + DayWindow + MaxOrderDay + MaxLead + 7)

DatesOf(ymd) == {d \in Horizon : strftime(d) = ymd}

CalcDone == calc_ret # NotCalled

OrderDaySet == Range(calc_arg.order_days)

ValidSchedule == OrderDaySet # {} /\ OrderDaySet \subseteq 1..7

\* C1: for a non-empty order-day set of ISO weekdays 1..7, the returned
\* order date is not before today and falls on a weekday of the set.
C1_OrderDateOnScheduledDay ==
    (CalcDone /\ ValidSchedule) =>
        /\ ~calc_ret.raised
        /\ \E d \in DatesOf(calc_ret.order_date) :
              d >= today /\ isoweekday(d) \in OrderDaySet

\* a wrap to next week has happened: every order day is before today's weekday
C1_Witness ==
    /\ CalcDone /\ ValidSchedule
    /\ \A x \in OrderDaySet : x < isoweekday(today)
    /\ Cardinality(OrderDaySet) = 3

\* C2: the order date is the earliest date on or after today (0..6 days
\* ahead) whose weekday is in the set: the smallest scheduled weekday >=
\* today's, else the smallest of the set; {1,3,5} on a Saturday gives the
\* next Monday, 2 days ahead.
C2_EarliestScheduledDay ==
    (CalcDone /\ ValidSchedule) =>
        LET w == isoweekday(today)
            later == {x \in OrderDaySet : x >= w}
            chosen == IF later # {}
                      THEN CHOOSE x \in later : \A y \in later : x <= y
                      ELSE CHOOSE x \in OrderDaySet : \A y \in OrderDaySet : x <= y
        IN /\ \E d \in today..(today + 6) :
                 /\ calc_ret.order_date = strftime(d)
                 /\ isoweekday(d) = chosen
                 /\ \A e \in today..(d - 1) : isoweekday(e) \notin OrderDaySet
           /\ (OrderDaySet = {1, 3, 5} /\ w = 6) =>
                 /\ calc_ret.order_date = strftime(today + 2)
                 /\ isoweekday(today + 2) = 1

C2_Witness ==
    /\ CalcDone
    /\ OrderDaySet = {1, 3, 5}
    /\ isoweekday(today) = 6
    /\ calc_ret.order_date = strftime(today + 2)

\* C3: the delivery date is the order date plus the lead time; lead 0 gives
\* delivery = order; when today's weekday is in the set the order date is
\* today ({2,4}, lead 3, Tuesday: order today, delivery today + 3).
C3_DeliveryIsOrderPlusLead ==
    (CalcDone /\ OrderDaySet # {}) =>
        /\ ~calc_ret.raised
        /\ \E d \in DatesOf(calc_ret.order_date) :
              calc_ret.delivery_date = strftime(d + calc_arg.delivery_days)
        /\ calc_arg.delivery_days = 0 => calc_ret.delivery_date = calc_ret.order_date
        /\ isoweekday(today) \in OrderDaySet =>
              /\ calc_ret.order_date = strftime(today)
              /\ calc_ret.delivery_date = strftime(today + calc_arg.delivery_days)

\* Tuesday 27.02.2024, order days {2,4}, lead 3: order today, delivery 01.03.2024
C3_Witness ==
    /\ CalcDone
    /\ OrderDaySet = {2, 4} /\ calc_arg.delivery_days = 3
    /\ isoweekday(today) = 2
    /\ calc_ret.order_date = <<27, 2, 2024>>
    /\ calc_ret.delivery_date = <<1, 3, 2024>>

\* ------------------------------------------------------------------------
\* Claims about parse_supplier_data (checked under SpecParse)
\* ------------------------------------------------------------------------
\* the field is a number written in decimal digits, blanks around it aside
NumericField(text) ==
    strip(text) # <<>> /\ \A i \in 1..Len(strip(text)) : IsDecimalChar(strip(text)[i])

ParsedDays == parse_ret.value.order_days

\* C21: parse_supplier_data does not fail; the order days it returns are the
\* numbers of the numeric order-day fields, each once, in ascending order,
\* and the lead time is the number of the lead field, 0 when that is blank
\* or not numeric.
C21_ParseNeverFails ==
    parse_ret.called =>
        /\ ~parse_ret.raised
        /\ \A i \in 1..(Len(ParsedDays) - 1) : ParsedDays[i] < ParsedDays[i + 1]
        /\ Range(ParsedDays) =
               {int(strip(parse_arg[f])) :
                   f \in {k \in {"day1", "day2", "day3"} : NumericField(parse_arg[k])}}
        /\ parse_ret.value.delivery_days =
               IF NumericField(parse_arg.lead) THEN int(strip(parse_arg.lead)) ELSE 0

\* C26: the order days of a parsed schedule are ISO weekdays 1..7, at most
\* three of them, and the order date computed from the schedule falls on one
\* of them.
C26_ParsedDaysAreWeekdays ==
    (parse_ret.called /\ ~parse_ret.raised) =>
        /\ Range(ParsedDays) \subseteq 1..7
        /\ Len(ParsedDays) <= 3
        /\ ParsedDays # <<>> =>
               LET dates == calculate_delivery_date(parse_ret.value, today)
               IN \E d \in today..(today + 6) :
                     /\ dates.order_date = strftime(d)
                     /\ isoweekday(d) \in Range(ParsedDays)

\* ------------------------------------------------------------------------
\* Claims about get_product_info (checked under SpecResolve)
\* ------------------------------------------------------------------------
\* the outcome of the last call still speaks of the present database
CallCurrent == call.made /\ ~refreshed

\* a row is stored under the exact key, or under a key the article begins
ProductExists(article, shop) ==
    /\ db_exists
    /\ \E r \in articles : r.full_key = article \o shop \/ IsPrefix(article, r.full_key)

\* the rows of the asked shop's schedule table for a supplier code
ScheduleRowsFor(supplier_code, shop) ==
    IF shop \in DOMAIN schedules /\ schedules[shop].exists
    THEN {row \in schedules[shop].rows : row.supplier_id = strip(supplier_code)}
    ELSE {}

\* the order-day fields of a schedule row that are usable numbers
UsableDays(row) ==
    {k \in {"day1", "day2", "day3"} : isdigit(strip(row[k]))}

\* C4: for every (article, shop) pair stored in the catalog the call returns
\* a result whose article, shop, name and department are those of the row.
C4_PresentPairResolved ==
    CallCurrent =>
        \A r \in articles :
            (r.article_code = call.article /\ r.store_number = call.shop) =>
                /\ call.result # None
                /\ call.result[1].article = r.article_code
                /\ call.result[1].shop = r.store_number
                /\ call.result[1].name = r.name
                /\ call.result[1].department = r.department

\* C5: a found product with an empty supplier code, or with a supplier code
\* that has no row in the asked shop's schedule table, gives a normal result
\* marked 'Товар РЦ' with both dates 'not determined'; the calculator is not
\* invoked and the call does not fail.
C5_NoSupplierDegrades ==
    (call.made /\ call.product # None
        /\ ScheduleRowsFor(call.product[1].supplier_code, call.shop) = {}) =>
        /\ call.result # None
        /\ call.result[1].supplier = TovarRC
        /\ call.result[1].order_date = NotDetermined
        /\ call.result[1].delivery_date = NotDetermined
        /\ call.result[1].name = call.product[1].name
        /\ calc_ret = NotCalled

\* a supplier code is set, the shop's table exists and holds no row for it
C5_Witness ==
    /\ call.made /\ call.product # None
    /\ strip(call.product[1].supplier_code) # <<>>
    /\ schedules[call.shop].exists
    /\ schedules[call.shop].rows # {}
    /\ ScheduleRowsFor(call.product[1].supplier_code, call.shop) = {}
    /\ call.result # None
    /\ call.result[1].supplier = TovarRC

\* C6: the call returns None only when no product is stored under the exact
\* key nor under the fallback; whenever a product row is found the result is
\* not None, whatever the state of its supplier data.
C6_NoneOnlyWhenNoProduct ==
    CallCurrent =>
        (call.result = None <=> ~ProductExists(call.article, call.shop))

\* C7: calculate_delivery_date is never invoked with an empty order-day
\* list: a schedule row with no usable order-day field gives the no-supplier
\* result instead.
C7_CalcNeverGetsEmptyDays ==
    /\ calc_ret # NotCalled => calc_arg.order_days # <<>>
    /\ (call.made /\ call.product # None) =>
          \A row \in ScheduleRowsFor(call.product[1].supplier_code, call.shop) :
              UsableDays(row) = {} =>
                  /\ call.result # None
                  /\ call.result[1].supplier = TovarRC

\* C9 as stated: a call with the arguments of the previous call, with no
\* import in between, returns what the previous call returned, and a call
\* changes neither the catalog, the schedule tables nor the cache.
C9_SameArgumentsSameResult ==
    [][/\ (/\ call.made /\ call'.made
           /\ call'.article = call.article /\ call'.shop = call.shop
           /\ ~refreshed /\ ~refreshed') => call'.result = call.result
       /\ call' # call => UNCHANGED <<sheet, db_exists, articles, schedules, cache>>]_vars

\* C9 as amended: the same, for two calls on the same calendar day.
C9_SameArgumentsSameDaySameResult ==
    [][/\ (/\ call.made /\ call'.made
           /\ call'.article = call.article /\ call'.shop = call.shop
           /\ call'.day = call.day
           /\ ~refreshed /\ ~refreshed') => call'.result = call.result
       /\ call' # call => UNCHANGED <<sheet, db_exists, articles, schedules, cache>>]_vars

\* a second call with the same arguments on the same day, answered through
\* the fallback query with dates computed
C9_Witness ==
    /\ call.made /\ call.repeat = 2
    /\ call.result # None
    /\ call.product[1].shop # call.shop
    /\ calc_ret # NotCalled

\* C22: a lookup that finds a product while the schedule table of the asked
\* shop does not exist returns the no-supplier result for that product.
C22_AbsentScheduleTableDegrades ==
    (call.made /\ call.product # None /\ ~schedules[call.shop].exists) =>
        call.result = <<degraded_result(call.article, call.shop, call.product[1])>>

\* a product of the asked shop that names a supplier was found, a schedule
\* table of another shop lists that supplier, the asked shop has no table
C22_Witness ==
    /\ call.made /\ call.product # None
    /\ ~schedules[call.shop].exists
    /\ call.product[1].shop = call.shop
    /\ truthy(strip(call.product[1].supplier_code))
    /\ \E t \in Shops : \E r \in schedules[t].rows :
           r.supplier_id = strip(call.product[1].supplier_code)
    /\ call.result # None

\* C17: a lookup made while the database file is absent has the catalog
\* rebuilt before it answers: after it the file exists and the import ran.
C17_AbsentStoreIsRebuiltOnLookup ==
    [][(~db_exists /\ call' # call) => (db_exists' /\ import_out'.ran)]_vars

\* C18: the program runs under a setting that switches the fallback to other
\* shops off: a lookup whose exact key is not in the catalog finds nothing.
C18_ExactMissIsNotFound ==
    (/\ call.made /\ ~refreshed /\ db_exists
     /\ select_exact(call.article \o call.shop) = {}) => call.product = None

\* the arguments as typed with blanks around them
padded(text) == <<SP>> \o text \o <<SP>>

\* get_product_info(article, shop) on the current day: the values it can
\* return
get_product_info(article, shop) ==
    {get_product_info_from(article, shop, product_data, today).result :
        product_data \in get_product_data_from_db(article, shop)}

\* C19: get_product_info returns for arguments with leading or trailing
\* blanks what it returns for the trimmed arguments.
C19_PaddedArgumentsSameResult ==
    \A article \in AskedArticles, shop \in AskedShops :
        \A padded_args \in {<<padded(article), shop>>, <<article, padded(shop)>>} :
            get_product_info(padded_args[1], padded_args[2])
                = get_product_info(strip(padded_args[1]), strip(padded_args[2]))

\* C24: when the exact key of the asked (article, shop) is stored, the
\* product returned carries the asked article and the asked shop, and no
\* stored key serves two different (article, shop) pairs.
C24_ExactMatchIsRequestedPair ==
    /\ (CallCurrent /\ db_exists /\ select_exact(call.article \o call.shop) # {}) =>
           /\ call.product # None
           /\ call.product[1].article = call.article
           /\ call.product[1].shop = call.shop
    /\ \A a1 \in AskedArticles, a2 \in AskedArticles, s1 \in AskedShops,
          s2 \in AskedShops :
           <<a1, s1>> # <<a2, s2>> =>
               select_exact(a1 \o s1) \cap select_exact(a2 \o s2) = {}

\* C25: when the exact key is not stored and the fallback by article returns
\* a product, that product carries the asked article.
C25_FallbackSameArticle ==
    (/\ CallCurrent /\ db_exists
     /\ select_exact(call.article \o call.shop) = {}
     /\ call.product # None) => call.product[1].article = call.article

\* ------------------------------------------------------------------------
\* Claims about the import (checked under SpecImport)
\* ------------------------------------------------------------------------
WellFormedRows ==
    {i \in 1..Len(sheet) :
        strip(sheet[i].article) # <<>> /\ strip(sheet[i].shop) # <<>>}

\* C10: an import stores exactly the well-formed rows of the worksheet: rows
\* with an empty article or shop are left out, and as many rows are left out
\* as are malformed.
C10_MalformedRowsExcluded ==
    import_out.ok =>
        /\ Cardinality(articles) = Cardinality(WellFormedRows)
        /\ import_out.imported = Cardinality(WellFormedRows)
        /\ \A r \in articles : r.article_code # <<>> /\ r.store_number # <<>>

\* the rows of the worksheet that have every column and a key of their own
SoundRows ==
    {i \in 1..Len(sheet) :
        /\ has_columns(sheet[i])
        /\ \A j \in 1..Len(sheet) :
               (j # i /\ has_columns(sheet[j])) =>
                   strip(sheet[j].key) # strip(sheet[i].key)}

\* C11: a row that lacks a field or repeats another row's key does not abort
\* the build: once the script has run on a worksheet it could fetch, every
\* other row of that worksheet is in the catalog.
C11_BadRowDoesNotAbortBuild ==
    (import_out.ran /\ import_out.error # "fetch") =>
        \A i \in SoundRows : prepare_row(sheet[i]) \in articles

\* C12: a rebuild that fails (fetch, preparing or inserting) leaves the
\* catalog as it was: the same rows, and the same answer to every lookup.
C12_FailedRebuildKeepsCatalog ==
    [][(import_out'.ran /\ ~import_out'.ok) =>
          /\ articles' = articles
          /\ \A a \in AskedArticles, s \in AskedShops :
                 get_product_data_from_db(a, s)' = get_product_data_from_db(a, s)]_vars

\* a failed rebuild after which the old, non-empty catalog is still there
C12_Witness ==
    /\ import_out.ran /\ ~import_out.ok
    /\ import_out.error \in {"KeyError", "IntegrityError"}
    /\ articles # {}

\* ------------------------------------------------------------------------
\* Claims about the rebuild next to lookups (checked under SpecRebuild)
\* ------------------------------------------------------------------------
\* the rows the running script publishes if it gets to its commit
NewCatalog == Range(prepared_rows(sheet))

\* the last lookup was made between the script's DELETE and its commit, and
\* nothing was committed since
LookedMidRebuild ==
    /\ call.made /\ ~refreshed
    /\ call.during \in {"insert", "commit"}
    /\ importer.pc \in {"insert", "commit"}

AdminRefreshStep(api_ok) ==
    \E u \in RefreshUsers \cap ADMINS : HandleCacheRefresh(u, BtnRefreshCache, api_ok)

RefreshStep(api_ok) == ScheduledCacheUpdate(api_ok) \/ AdminRefreshStep(api_ok)

\* C14: when the refresh an admin asked for fails to reload the users, the
\* admin is sent the error reply and is not sent the success reply.
C14_FailedAdminRefreshRepliesError ==
    [][AdminRefreshStep(FALSE) =>
          /\ Msg("cache_refresh_error") \in Range(out')
          /\ Msg("cache_refreshed") \notin Range(out')]_vars

\* C15: when a scheduled refresh fails to read the worksheet, the failure is
\* logged, nothing is sent to a chat, and the cache keeps every entry it had
\* with the same value.
C15_FailedScheduledRefreshKeepsCache ==
    [][ScheduledCacheUpdate(FALSE) =>
          /\ cache' = cache
          /\ out' = out
          /\ "cache load error" \in Range(logged')]_vars

\* a scheduled refresh has failed on a cache that holds the users and the
\* profile of one of them
C15_Witness ==
    /\ logged = <<"cache load error", "scheduled update done">>
    /\ cache_contains(cache, UsersDataKey)
    /\ \E u \in RefreshUsers : cache_contains(cache, UserKey(u))

\* C16: a refresh by either trigger, succeeding or failing, leaves in the
\* cache the users loaded before it or the users it has just loaded: a cache
\* that held the users holds them after the refresh.
C16_RefreshKeepsLastGoodUsers ==
    [][\A api_ok \in BOOLEAN :
          (RefreshStep(api_ok) /\ cache_contains(cache, UsersDataKey)) =>
              /\ cache_contains(cache', UsersDataKey)
              /\ cache_value(cache', UsersDataKey)
                     \in {cache_value(cache, UsersDataKey), [records |-> users_sheet]}]_vars

\* the worksheet of the users holds a row of user_id
InUsersSheet(user_id) ==
    \E i \in 1..Len(users_sheet) : strip(users_sheet[i].id) = strip(user_id)

\* C27: when 'users_data' is not in the cache (after a clear or a failed
\* load) and the worksheet can be read, get_user_data of a user of the
\* worksheet reloads the users, caches them and returns the user's profile:
\* /start shows such a user the main menu.
C27_AbsentDirectoryIsReloaded ==
    [][\A u \in RefreshUsers :
          (/\ StartHandler(u, CmdStart, TRUE)
           /\ retrying = None
           /\ ~cache_contains(cache, UsersDataKey)
           /\ InUsersSheet(u)) =>
              /\ cache_contains(cache', UsersDataKey)
              /\ cache_contains(cache', UserKey(u))
              /\ Msg("main_menu") \in Range(out')]_vars

\* the rows of the worksheet of the users that are rows of user_id
RowsOfUser(user_id) ==
    {i \in 1..Len(users_sheet) : strip(users_sheet[i].id) = strip(user_id)}

\* get_user_data returns a profile for the user when the worksheet is readable
KnownUser(user_id) == get_user_data(cache, user_id, TRUE).ret # None

\* C29: once process_shop has appended the row of a user and replied that the
\* registration is done, get_user_data returns the user's profile from then
\* on (the worksheet being readable), so that /start shows the main menu, and
\* no second row of the user is appended: the step that completes the
\* registration leaves the user known, and no step makes a known user of the
\* worksheet unknown.
C29_RegisteredUserStaysKnown ==
    [][\A u \in RefreshUsers :
          /\ (/\ ~InUsersSheet(u) /\ InUsersSheet(u)'
              /\ Msg("registration_done") \in Range(out')) => KnownUser(u)'
          /\ (InUsersSheet(u) /\ KnownUser(u)) => KnownUser(u)'
          /\ Cardinality(RowsOfUser(u)') <= 1]_vars

\* ------------------------------------------------------------------------
\* Claims about the users loaded by a refresh (checked under SpecDirectory)
\* ------------------------------------------------------------------------
\* the last load of the users was a scheduled one and it succeeded
LastRefreshLoaded == logged = <<"cache loaded", "scheduled update done">>

\* C28: once a scheduled refresh has loaded the users, get_user_data returns
\* for every user what the users in the cache say of that user: a profile
\* cached before the refresh is not served.
C28_RefreshedDirectoryIsServed ==
    LastRefreshLoaded =>
        \A u \in ChatUsers, api_ok \in BOOLEAN :
            get_user_data(cache, u, api_ok).ret
                = load_user(cache_pop(cache, UserKey(u)), u, api_ok).ret

\* ------------------------------------------------------------------------
\* Claims about the size of the cache (checked under SpecCache)
\* ------------------------------------------------------------------------
cache_keys(c) == {c[i].key : i \in 1..Len(c)}

\* the least recently used key of c at the moment a step that left c_after
\* inserted its new key: the first entry, or the second when the step has
\* used the first one before
lru_key(c, c_after) ==
    IF c[1].key \in cache_keys(c_after) THEN c[2].key ELSE c[1].key

\* C20: the cache never holds more than CacheMaxsize entries, one per key,
\* and a step that inserts a new key into a full cache evicts exactly one
\* entry, the least recently used one.
C20_CacheBoundedLruEviction ==
    [][LET before == cache_keys(cache)
           after == cache_keys(cache')
       IN /\ Len(cache') <= CacheMaxsize
          /\ Cardinality(after) = Len(cache')
          /\ (Len(cache) = CacheMaxsize /\ after \ before # {}) =>
                 /\ Len(cache') = CacheMaxsize
                 /\ before \ after = {lru_key(cache, cache')}]_vars

\* the cache is full, the profile cached longest ago was evicted for the
\* profile of the user of the last row
C20_Witness ==
    /\ Len(cache) = CacheMaxsize
    /\ cache_contains(cache, UserKey(str_id(CacheMaxsize + 1)))
    /\ ~cache_contains(cache, UserKey(str_id(1)))
    /\ cache_contains(cache, UsersDataKey)

\* C30: once 'users_data' is in the cache, no step of /start, registration,
\* statistics or refresh removes it: the eviction for a new profile never
\* takes it, because a step that caches the profile of a user has used
\* 'users_data' just before ('users_data' is the entry used last but one).
C30_UsersDataNeverEvicted ==
    [][cache_contains(cache, UsersDataKey) =>
          /\ cache_contains(cache', UsersDataKey)
          /\ \A u \in CacheUsers :
                 (/\ ~cache_contains(cache, UserKey(u))
                  /\ cache_contains(cache', UserKey(u))) =>
                     /\ Len(cache') >= 2
                     /\ cache'[Len(cache') - 1].key = UsersDataKey]_vars

\* the admin has registered and the full cache has taken the admin's profile
\* in: the profile used longest ago was evicted, 'users_data' was not
C30_Witness ==
    /\ Len(cache) = CacheMaxsize
    /\ Len(users_sheet) = CacheMaxsize + 2
    /\ cache[Len(cache)].key = UserKey(Admin1)
    /\ cache[Len(cache) - 1].key = UsersDataKey
    /\ ~cache_contains(cache, UserKey(str_id(1)))

\* ------------------------------------------------------------------------
\* Claims about the chat replies (checked under SpecChat)
\* ------------------------------------------------------------------------
\* the summaries of the last update
Summaries(tpls) == {i \in 1..Len(out) : out[i].tpl \in tpls}

\* the tier of the product the last get_product_info call found
FoundTier == call.product[1].top

\* C8: the manager-review warning is attached to the info-request reply, to
\* the order wizard's product summary and to its confirmation summary
\* exactly when the tier of the product that was looked up is '0' (never when
\* it is '1'); the confirmation summary is about the article and shop of that
\* lookup.
C8_WarningIffTopZero ==
    /\ \A i \in Summaries({"info_reply", "product_summary"}) :
           /\ call.made /\ call.product # None
           /\ FoundTier \in {Dg(0), Dg(1)}
           /\ out[i].warning <=> (FoundTier = Dg(0))
    /\ \A u \in ChatUsers :
           (fsm[u] = OrderConfirmation /\ Summaries({"confirm_summary"}) # {}) =>
               /\ call.made /\ call.product # None
               /\ call.article = data[u].article
               /\ call.shop = data[u].selected_shop
               /\ \A i \in Summaries({"confirm_summary"}) :
                      out[i].warning <=> (FoundTier = Dg(0))

\* a confirmation summary that carries the warning, for a product of tier '0'
C8_Witness ==
    /\ \E i \in Summaries({"confirm_summary"}) : out[i].warning
    /\ \E u \in ChatUsers : fsm[u] = OrderConfirmation
    /\ FoundTier = Dg(0)

\* C23: no message sent to somebody outside ADMINS carries the details of an
\* internal failure (exception type, text, traceback): such a message goes
\* to an id of ADMINS only, and the user who caused the failure is sent the
\* fixed text of global_error_handler.  The answers of the handlers
\* themselves (message.answer to the sender) are fixed texts with no details.
CarriesDetails(m) == "details" \in DOMAIN m /\ m.details

C23_DetailsOnlyToAdmins ==
    \A i \in 1..Len(out) : CarriesDetails(out[i]) => out[i].to \in ADMINS

\* the handler of an update of the user raised twice: the admins were sent the
\* details and the user the fixed text
C23_Witness ==
    /\ \E i \in 1..Len(out) : out[i] = ErrorMsg("critical_error", Admin1, TRUE)
    /\ \E i \in 1..Len(out) :
           /\ out[i] = ErrorMsg("unexpected_error", User1, FALSE)
           /\ User1 \notin ADMINS
    /\ fsm[User1] = NoState

\* ------------------------------------------------------------------------
\* Claims about the order wizard (checked under SpecOrder)
\* ------------------------------------------------------------------------
\* C31: the handlers of an update run at most once, also when a handler
\* raises: in particular one message "✅ Подтвердить" in the confirmation
\* state writes at most one row of the orders, even when the reply after the
\* write fails (the rows of the update's first run and of a further run
\* together are at most one).
C31_OneRowPerUpdate ==
    [][retrying # None =>
          Len(orders') - Len(orders) + retrying[1].wrote <= 1]_vars

\* the states of the order wizard from which the shop has been entered
AfterLookup == {OrderQuantityInput, OrderReasonInput, OrderConfirmation}

\* what the session of a user holds at each state of the order wizard: the
\* profile of the registered user, an article of 4-10 digits, the shop and
\* the product get_product_info returned, a quantity and a reason
WizardData(state, d) ==
    /\ state \in {OrderArticleInput, OrderShopSelection, OrderShopInput}
                  \cup AfterLookup
           => {"shop", "user_name", "user_position"} \subseteq DOMAIN d
    /\ state \in {OrderShopSelection, OrderShopInput} \cup AfterLookup
           => "article" \in DOMAIN d /\ is_article(d.article)
    /\ state \in AfterLookup
           => {"selected_shop", "product_name", "department"} \subseteq DOMAIN d
    /\ state \in {OrderReasonInput, OrderConfirmation}
           => "quantity" \in DOMAIN d /\ d.quantity \in Nat
    /\ state = OrderConfirmation => "order_reason" \in DOMAIN d

C33_CancelInEveryState ==
    [][\A u \in ChatUsers :
          fsm[u] # NoState /\ Dispatch(u, BtnCancel) =>
              /\ fsm'[u] = NoState
              /\ DOMAIN data'[u] \subseteq {"last_activity"}
              /\ out' = <<Msg("cancelled")>>]_vars

\* ------------------------------------------------------------------------
\* Claims about the service mode (checked under SpecService)
\* ------------------------------------------------------------------------
ServiceNotice == <<Msg("service_mode_notice")>>

\* the update text of user u was handed to its handler
ReachedHandler(u, text) ==
    LET h == Route(fsm[u], text)
    IN /\ out' # ServiceNotice
       /\ h = "start_handler" =>
              /\ fsm'[u] = start_handler(u, fsm[u], data[u], cache, today, TRUE).fsm
              /\ out' = start_handler(u, fsm[u], data[u], cache, today, TRUE).out
       /\ h = "process_name" =>
              fsm'[u] = RegistrationSurname /\ data'[u].name = strip(text)
       /\ h = "process_surname" =>
              fsm'[u] = RegistrationPosition /\ data'[u].surname = strip(text)
       /\ h = "enable_service_mode" /\ u \in ADMINS =>
              service_mode' /\ out' = <<Msg("service_mode_on")>>
       /\ h = "disable_service_mode" /\ u \in ADMINS =>
              ~service_mode' /\ out' = <<Msg("service_mode_off")>>

C35_AdminOnly ==
    [][\A u \in AdminUsers \ ADMINS, text \in AdminTexts :
          AdminDispatch(u, text) =>
              /\ UNCHANGED <<service_mode, tasks, logged>>
              /\ \A i \in 1..Len(out') :
                     out'[i].tpl \notin {"statistics", "cache_refreshed",
                                         "service_mode_on", "service_mode_off",
                                         "task_added"}]_vars

\* ------------------------------------------------------------------------
\* Claims about the cleanup of the sessions (checked under SpecCleanup)
\* ------------------------------------------------------------------------
\* C36: a pass of state_cleanup_task clears the state and the data of exactly
\* the sessions whose last_activity is more than 30 minutes old, leaves the
\* other sessions as they were, and sends the notice of the ended session
\* only to users whose session had an FSM state.
C36_CleanupPass ==
    [][StateCleanupTask =>
          \A u \in CleanupUsers :
              /\ IF is_inactive(data[u], today)
                 THEN fsm'[u] = NoState /\ data'[u] = <<>>
                 ELSE fsm'[u] = fsm[u] /\ data'[u] = data[u]
              /\ (\E i \in 1..Len(out') : out'[i] = SessionEnded(u)) =>
                     fsm[u] # NoState]_vars

\* ------------------------------------------------------------------------
\* Claims about the tasks (checked under SpecTasks)
\* ------------------------------------------------------------------------
\* C37: a mark_task_done of a user leaves, for every task, the completers
\* load_tasks reads equal to those it read before together with the user
\* when the marking was written, and unchanged otherwise: no completer
\* recorded before is lost and a user is recorded once, whichever format
\* the statuses of the row had.
C37_CompletersOnlyGrow ==
    [][\A u \in TaskUsers, task_id \in TaskIds, sheet_ok \in BOOLEAN :
          MarkTaskDone(u, task_id, sheet_ok) =>
              /\ DOMAIN load_tasks(tasks') = DOMAIN load_tasks(tasks)
              /\ \A t \in DOMAIN load_tasks(tasks) :
                     LET before == Range(load_tasks(tasks)[t])
                         after == Range(load_tasks(tasks')[t])
                     IN /\ before \subseteq after
                        /\ after \subseteq before \cup {u}
                        /\ (out' = <<Msg("marked_done")>> /\ t = task_id) =>
                               u \in after]_vars

\* ------------------------------------------------------------------------
\* Claims about the broadcast (checked under SpecBroadcast)
\* ------------------------------------------------------------------------
\* the ids of the list that are not blank
NonBlank(user_ids) == SelectSeq(user_ids, LAMBDA id : strip(id) # <<>>)

\* C38: send_broadcast tries the delivery to every id of its list that is
\* not blank, whatever failed for the recipients before, and ends with the
\* report to the administrator, in which success + failed is the number of
\* the recipients tried.
C38_BroadcastReachesAll ==
    (broadcast.called /\ broadcast.report_ok) =>
        /\ broadcast.attempted = NonBlank(broadcast.user_ids)
        /\ broadcast.report # None
        /\ broadcast.report[1].success + broadcast.report[1].failed
               = Len(NonBlank(broadcast.user_ids))

\* ------------------------------------------------------------------------
\* Claims about the loop of the scheduled refresh (checked under
\* LiveSchedule)
\* ------------------------------------------------------------------------
\* C39: the loop of scheduled_cache_update never stops: after every reload,
\* loaded or failed, it sleeps and comes to the next reload; and once the
\* worksheets answer again and go on answering, a reload loads the users:
\* the last scheduled reload is a loaded one from then on.
C39_RefreshNeverStops ==
    /\ []<>(refresher.pc = "preload")
    /\ []<>(refresher.pc = "sleep")
    /\ (<>[]refresher.store_ok) => <>[](LastRefreshLoaded /\ cache_contains(cache, UsersDataKey))

\* a scheduled reload has failed and a later one has loaded the users
C39_Witness ==
    /\ refresher.failed /\ refresher.store_ok /\ refresher.pc = "sleep"
    /\ LastRefreshLoaded
    /\ cache_contains(cache, UsersDataKey)

====
